---------------------------- MODULE Spec2Model ----------------------------
(***************************************************************************)
(* Model of the StatsD/Carbon/Graphite capacity simulator                  *)
(* (src/src/lib/calculations.ts).                                          *)
(*                                                                         *)
(* JavaScript numbers are modelled as exact values: a finite number is a   *)
(* signed fraction of two arbitrary-precision naturals, and NaN, +Infinity *)
(* and -Infinity are values of their own with the IEEE-754 rules for       *)
(* arithmetic and comparison.  undefined and null are values too, so that  *)
(* `x || d` and `obj?.f` are computed the way the language computes them.  *)
(* Rounding error of binary floating point is not modelled.                *)
(***************************************************************************)
EXTENDS Integers, Sequences, FiniteSets, TLC

(***************************************************************************)
(* Arbitrary-precision naturals: little-endian sequences of limbs in base  *)
(* 10^4, without leading zero limbs; zero is the empty sequence.           *)
(***************************************************************************)
Base == 10^4

RECURSIVE BNorm(_)
BNorm(a) ==
  IF Len(a) = 0 THEN a
  ELSE IF a[Len(a)] = 0 THEN BNorm(SubSeq(a, 1, Len(a) - 1)) ELSE a

RECURSIVE BFromInt(_)
BFromInt(n) == IF n = 0 THEN << >> ELSE <<n % Base>> \o BFromInt(n \div Base)

BRest(a) == IF Len(a) = 0 THEN a ELSE Tail(a)

BLimb(a) == IF Len(a) = 0 THEN 0 ELSE a[1]

RECURSIVE BAddC(_, _, _)
BAddC(a, b, c) ==
  IF Len(a) = 0 /\ Len(b) = 0 THEN (IF c = 0 THEN << >> ELSE <<c>>)
  ELSE LET s == BLimb(a) + BLimb(b) + c
       IN  <<s % Base>> \o BAddC(BRest(a), BRest(b), s \div Base)

BAdd(a, b) == BAddC(a, b, 0)

\* a - b for a >= b
RECURSIVE BSubC(_, _, _)
BSubC(a, b, c) ==
  IF Len(a) = 0 THEN << >>
  ELSE LET s == BLimb(a) - BLimb(b) - c
       IN  IF s < 0 THEN <<s + Base>> \o BSubC(BRest(a), BRest(b), 1)
           ELSE <<s>> \o BSubC(BRest(a), BRest(b), 0)

BSub(a, b) == BNorm(BSubC(a, b, 0))

RECURSIVE BCmpAt(_, _, _)
BCmpAt(a, b, i) ==
  IF i = 0 THEN 0
  ELSE IF a[i] < b[i] THEN -1
  ELSE IF a[i] > b[i] THEN 1
  ELSE BCmpAt(a, b, i - 1)

\* -1, 0 or 1 as a < b, a = b, a > b
BCmp(a, b) ==
  IF Len(a) < Len(b) THEN -1
  ELSE IF Len(a) > Len(b) THEN 1
  ELSE BCmpAt(a, b, Len(a))

RECURSIVE BMulSmallC(_, _, _)
BMulSmallC(a, m, c) ==
  IF Len(a) = 0 THEN (IF c = 0 THEN << >> ELSE <<c>>)
  ELSE LET s == a[1] * m + c
       IN  <<s % Base>> \o BMulSmallC(Tail(a), m, s \div Base)

\* a * m for a limb 0 <= m < Base
BMulSmall(a, m) == IF m = 0 THEN << >> ELSE BMulSmallC(a, m, 0)

BShift(a) == IF Len(a) = 0 THEN a ELSE <<0>> \o a

RECURSIVE BMulLong(_, _)
BMulLong(a, b) ==
  IF Len(b) = 0 THEN << >>
  ELSE BAdd(BMulSmall(a, b[1]), BShift(BMulLong(a, Tail(b))))

BMul(a, b) ==
  IF Len(a) = 0 \/ Len(b) = 0 THEN << >>
  ELSE IF Len(b) = 1 THEN (IF b[1] = 1 THEN a ELSE BMulSmall(a, b[1]))
  ELSE IF Len(a) = 1 THEN (IF a[1] = 1 THEN b ELSE BMulSmall(b, a[1]))
  ELSE BMulLong(a, b)

\* the largest limb q in lo..hi with b * q <= r
RECURSIVE BQuotLimb(_, _, _, _)
BQuotLimb(r, b, lo, hi) ==
  IF lo = hi THEN lo
  ELSE IF BCmp(BMulSmall(b, (lo + hi + 1) \div 2), r) <= 0
       THEN BQuotLimb(r, b, (lo + hi + 1) \div 2, hi)
       ELSE BQuotLimb(r, b, lo, (lo + hi + 1) \div 2 - 1)

\* Long division of the limbs a[1..i] with the running remainder r:
\* <<quotient limbs 1..i, remainder>>.  BDivLimb brings down limb i (r1 is
\* the remainder with that limb appended), BDivNext subtracts q times the
\* divisor and goes on, BDivPush appends the quotient limb q.
RECURSIVE BDivStep(_, _, _, _), BDivLimb(_, _, _, _), BDivNext(_, _, _, _, _)
BDivPush(rest, q) == << rest[1] \o <<q>>, rest[2] >>

BDivNext(a, b, i, r1, q) ==
  BDivPush(BDivStep(a, b, i - 1, BSub(r1, BMulSmall(b, q))), q)

BDivLimb(a, b, i, r1) ==
  BDivNext(a, b, i, r1,
           IF BCmp(r1, b) < 0 THEN 0 ELSE BQuotLimb(r1, b, 1, Base - 1))

BDivStep(a, b, i, r) ==
  IF i = 0 THEN << << >>, r >> ELSE BDivLimb(a, b, i, BNorm(<<a[i]>> \o r))

BDivTrim(qr) == << BNorm(qr[1]), qr[2] >>

\* <<a div b, a mod b>> for b > 0
BDivMod(a, b) == BDivTrim(BDivStep(a, b, Len(a), << >>))

BZero == << >>
BOne == <<1>>


(***************************************************************************)
(* JavaScript values.  k is the kind: "undefined", "null", "nan", "inf"    *)
(* (sg = 1 or -1) or "fin", the finite number sg * n / d with d > 0 and    *)
(* sg = 0 exactly for zero.                                                *)
(***************************************************************************)
\* the greatest common divisor of two natural numbers
RECURSIVE GcdInt(_, _)
GcdInt(a, b) == IF b = 0 THEN a ELSE GcdInt(b, a % b)

\* the limbs 1..i of a \div m for 0 < m <= Base, with the remainder r of
\* the limbs above i
RECURSIVE BDivSmallFrom(_, _, _, _)
BDivSmallFrom(a, m, i, r) ==
  IF i = 0 THEN << >>
  ELSE BDivSmallFrom(a, m, i - 1, (r * Base + a[i]) % m)
         \o <<(r * Base + a[i]) \div m>>

BDivSmall(a, m) == BNorm(BDivSmallFrom(a, m, Len(a), 0))

\* the greatest divisor of Base that divides both n and d
BCommonFactor(n, d) == GcdInt(GcdInt(Base, BLimb(n)), BLimb(d))

\* <<n, d>> without the common factors 2 and 5 (the fraction keeps its
\* value; this keeps the numbers short)
RECURSIVE BReduce(_, _)
BReduce(n, d) ==
  IF Len(n) = 0 \/ BCommonFactor(n, d) = 1 THEN <<n, d>>
  ELSE BReduce(BDivSmall(n, BCommonFactor(n, d)),
               BDivSmall(d, BCommonFactor(n, d)))

FinOf(s, nd) == [k |-> "fin", sg |-> s, n |-> nd[1], d |-> nd[2]]

Fin(s, n, d) == FinOf(IF Len(n) = 0 THEN 0 ELSE s, BReduce(n, d))

Abs(i) == IF i < 0 THEN -i ELSE i

Sign(i) == IF i < 0 THEN -1 ELSE IF i = 0 THEN 0 ELSE 1

\* the decimal literal i / scale, such as 0.015 = Dec(15, 1000)
Dec(i, scale) == Fin(Sign(i), BFromInt(Abs(i)), BFromInt(scale))

Num(i) == Dec(i, 1)

NaN == [k |-> "nan", sg |-> 0, n |-> BZero, d |-> BOne]

Infinity(s) == [k |-> "inf", sg |-> s, n |-> BZero, d |-> BOne]

Undefined == [k |-> "undefined", sg |-> 0, n |-> BZero, d |-> BOne]

Null == [k |-> "null", sg |-> 0, n |-> BZero, d |-> BOne]

IsFinite(a) == a.k = "fin"

IsNaN(a) == a.k = "nan"

Neg(a) == [a EXCEPT !.sg = -a.sg]

\* -1, 0, 1 as a < b, a = b, a > b, for two numbers neither of which is NaN
Cmp(a, b) ==
  IF a.k = "inf" THEN (IF b.k = "inf" /\ b.sg = a.sg THEN 0 ELSE a.sg)
  ELSE IF b.k = "inf" THEN -b.sg
  ELSE IF a.sg # b.sg THEN (IF a.sg < b.sg THEN -1 ELSE 1)
  ELSE IF a.sg = 0 THEN 0
  ELSE a.sg * BCmp(BMul(a.n, b.d), BMul(b.n, a.d))

IsNumber(a) == a.k \in {"fin", "inf"}

\* the comparison operators: false whenever an operand is NaN
Lt(a, b) == IsNumber(a) /\ IsNumber(b) /\ Cmp(a, b) < 0
Le(a, b) == IsNumber(a) /\ IsNumber(b) /\ Cmp(a, b) <= 0
Gt(a, b) == IsNumber(a) /\ IsNumber(b) /\ Cmp(a, b) > 0
Ge(a, b) == IsNumber(a) /\ IsNumber(b) /\ Cmp(a, b) >= 0
NumEq(a, b) == IsNumber(a) /\ IsNumber(b) /\ Cmp(a, b) = 0

\* sa * x / d + sb * y / d for two nonzero fractions over one denominator
FinSum(sa, x, sb, y, d) ==
  IF sa = sb THEN Fin(sa, BAdd(x, y), d)
  ELSE IF BCmp(x, y) = 0 THEN Fin(0, BZero, BOne)
  ELSE IF BCmp(x, y) > 0 THEN Fin(sa, BSub(x, y), d)
  ELSE Fin(sb, BSub(y, x), d)

Add(a, b) ==
  IF a.k = "nan" \/ b.k = "nan" THEN NaN
  ELSE IF a.k = "inf" THEN (IF b.k = "inf" /\ b.sg # a.sg THEN NaN ELSE a)
  ELSE IF b.k = "inf" THEN b
  ELSE IF a.sg = 0 THEN b
  ELSE IF b.sg = 0 THEN a
  ELSE FinSum(a.sg, IF a.d = b.d THEN a.n ELSE BMul(a.n, b.d),
              b.sg, IF a.d = b.d THEN b.n ELSE BMul(b.n, a.d),
              IF a.d = b.d THEN a.d ELSE BMul(a.d, b.d))

Sub(a, b) == Add(a, Neg(b))

Mul(a, b) ==
  IF a.k = "nan" \/ b.k = "nan" THEN NaN
  ELSE IF a.k = "inf" \/ b.k = "inf"
       THEN (IF a.sg = 0 \/ b.sg = 0 THEN NaN ELSE Infinity(a.sg * b.sg))
  ELSE IF a.sg = 0 \/ b.sg = 0 THEN Fin(0, BZero, BOne)
  ELSE Fin(a.sg * b.sg, BMul(a.n, b.n), BMul(a.d, b.d))

\* IEEE division: x / 0 is an infinity, 0 / 0 and inf / inf are NaN
Div(a, b) ==
  IF a.k = "nan" \/ b.k = "nan" THEN NaN
  ELSE IF a.k = "inf"
       THEN (IF b.k = "inf" THEN NaN
             ELSE Infinity(a.sg * (IF b.sg < 0 THEN -1 ELSE 1)))
  ELSE IF b.k = "inf" THEN Fin(0, BZero, BOne)
  ELSE IF b.sg = 0 THEN (IF a.sg = 0 THEN NaN ELSE Infinity(a.sg))
  ELSE IF a.sg = 0 THEN Fin(0, BZero, BOne)
  ELSE Fin(a.sg * b.sg, BMul(a.n, b.d), BMul(a.d, b.n))

\* Math.max and Math.min of two arguments: NaN if either is NaN
MathMax(a, b) ==
  IF a.k = "nan" \/ b.k = "nan" THEN NaN
  ELSE IF Cmp(a, b) < 0 THEN b ELSE a

MathMin(a, b) ==
  IF a.k = "nan" \/ b.k = "nan" THEN NaN
  ELSE IF Cmp(b, a) < 0 THEN b ELSE a

\* the integer sg * q, or the next one away from zero when away holds and
\* the division left a remainder; qr is <<q, remainder>>
FinInteger(sg, qr, away) ==
  IF away /\ Len(qr[2]) # 0 THEN Fin(sg, BAdd(qr[1], BOne), BOne)
  ELSE Fin(sg, qr[1], BOne)

MathFloor(a) ==
  IF a.k # "fin" \/ a.sg = 0 THEN a
  ELSE FinInteger(a.sg, BDivMod(a.n, a.d), a.sg < 0)

MathCeil(a) ==
  IF a.k # "fin" \/ a.sg = 0 THEN a
  ELSE FinInteger(a.sg, BDivMod(a.n, a.d), a.sg > 0)

\* Math.round: the nearest integer, a half rounded towards +Infinity
MathRound(a) == MathFloor(Add(a, Dec(5, 10)))

\* Math.log10 on the arguments the estimators pass it, which are >= 1: exact
\* on the powers of ten up to 10^6, and to four decimal places on 1.2, on
\* 6, on 20 and on 2000.  The workloads of the model keep every per-tier load at or
\* below 1, at a power of ten or at one of these four values.
MathLog10(a) ==
  IF a.k = "nan" THEN NaN
  ELSE IF a.k = "inf" THEN (IF a.sg > 0 THEN a ELSE NaN)
  ELSE IF NumEq(a, Dec(12, 10)) THEN Dec(792, 10000)
  ELSE IF NumEq(a, Num(6)) THEN Dec(7782, 10000)
  ELSE IF NumEq(a, Num(20)) THEN Dec(13010, 10000)
  ELSE IF NumEq(a, Num(2000)) THEN Dec(33010, 10000)
  ELSE Num(CHOOSE e \in 0..6 : NumEq(a, Num(10^e)))

\* Variant of ||, for the sensitivity of the normalization property: the
\* operator ??, which replaces undefined and null alone.
NullishCoalesce(a, b) == IF a.k \in {"undefined", "null"} THEN b ELSE a

\* the operator ||: its left operand unless that is falsy
\* (undefined, null, NaN or 0)
Or(a, b) ==
  IF a.k \in {"undefined", "null", "nan"} \/ (a.k = "fin" /\ a.sg = 0)
  THEN b ELSE a

(***************************************************************************)
(* Objects.  A WorkloadParams or UserResources argument is a record whose  *)
(* field k says whether the argument is an object, null or undefined; the  *)
(* other fields hold the properties, Undefined for a property that is      *)
(* absent.                                                                 *)
(***************************************************************************)
TypeError == [k |-> "throw", sg |-> 0, n |-> BZero, d |-> BOne]

\* Variant of ?., for the sensitivity of the totality property: the plain
\* member access.
UnguardedMember(obj, f) ==
  IF obj.k \in {"null", "undefined"} THEN TypeError ELSE obj[f]

\* obj?.f
OptionalChain(obj, f) ==
  IF obj.k \in {"null", "undefined"} THEN Undefined ELSE obj[f]

\* obj.f, which throws a TypeError on null and undefined
Member(obj, f) ==
  IF obj.k \in {"null", "undefined"} THEN TypeError ELSE obj[f]

WorkloadFields ==
  {"requestsPerSecond", "metricsPerRequest", "uniqueMetricsRatio",
   "calculationComplexity", "flushIntervalSeconds", "retentionPeriodDays"}

ResourceFields ==
  {"cpu", "memory", "diskIO", "networkIO", "storage",
   "statsdInstances", "carbonInstances"}

(***************************************************************************)
(* calculateResourceRequirements: input normalization                      *)
(***************************************************************************)
\* Variant of safeWorkload, for the sensitivity of the range property:
\* defaults without the clamps.
safeWorkloadUnclamped(workload) ==
  [requestsPerSecond |-> Or(OptionalChain(workload, "requestsPerSecond"), Num(0)),
   metricsPerRequest |-> Or(OptionalChain(workload, "metricsPerRequest"), Num(0)),
   uniqueMetricsRatio |->
     Or(OptionalChain(workload, "uniqueMetricsRatio"), Dec(2, 10)),
   calculationComplexity |->
     Or(OptionalChain(workload, "calculationComplexity"), Num(1)),
   flushIntervalSeconds |->
     Or(OptionalChain(workload, "flushIntervalSeconds"), Num(10)),
   retentionPeriodDays |->
     Or(OptionalChain(workload, "retentionPeriodDays"), Num(1))]

safeWorkload(workload) ==
  [requestsPerSecond |->
     MathMax(Num(0), Or(OptionalChain(workload, "requestsPerSecond"), Num(0))),
   metricsPerRequest |->
     MathMax(Num(0), Or(OptionalChain(workload, "metricsPerRequest"), Num(0))),
   uniqueMetricsRatio |->
     MathMin(Num(1),
       MathMax(Num(0),
         Or(OptionalChain(workload, "uniqueMetricsRatio"), Dec(2, 10)))),
   calculationComplexity |->
     MathMax(Num(1), Or(OptionalChain(workload, "calculationComplexity"), Num(1))),
   flushIntervalSeconds |->
     MathMax(Num(1), Or(OptionalChain(workload, "flushIntervalSeconds"), Num(10))),
   retentionPeriodDays |->
     MathMax(Num(1), Or(OptionalChain(workload, "retentionPeriodDays"), Num(1)))]

\* Variant of safeResources: memory clamped at zero instead of 0.1.
safeResourcesFlooredAtZero(userResources) ==
  [cpu |-> MathMax(Dec(1, 10), Or(OptionalChain(userResources, "cpu"), Num(1))),
   memory |->
     MathMax(Num(0), Or(OptionalChain(userResources, "memory"), Num(1))),
   diskIO |->
     MathMax(Num(1), Or(OptionalChain(userResources, "diskIO"), Num(10))),
   networkIO |->
     MathMax(Num(1), Or(OptionalChain(userResources, "networkIO"), Num(10))),
   storage |->
     MathMax(Num(1), Or(OptionalChain(userResources, "storage"), Num(10))),
   statsdInstances |->
     MathMax(Num(1), Or(OptionalChain(userResources, "statsdInstances"), Num(1))),
   carbonInstances |->
     MathMax(Num(1), Or(OptionalChain(userResources, "carbonInstances"), Num(1)))]

safeResources(userResources) ==
  [cpu |-> MathMax(Dec(1, 10), Or(OptionalChain(userResources, "cpu"), Num(1))),
   memory |->
     MathMax(Dec(1, 10), Or(OptionalChain(userResources, "memory"), Num(1))),
   diskIO |->
     MathMax(Num(1), Or(OptionalChain(userResources, "diskIO"), Num(10))),
   networkIO |->
     MathMax(Num(1), Or(OptionalChain(userResources, "networkIO"), Num(10))),
   storage |->
     MathMax(Num(1), Or(OptionalChain(userResources, "storage"), Num(10))),
   statsdInstances |->
     MathMax(Num(1), Or(OptionalChain(userResources, "statsdInstances"), Num(1))),
   carbonInstances |->
     MathMax(Num(1), Or(OptionalChain(userResources, "carbonInstances"), Num(1)))]

(***************************************************************************)
(* calculateResourceRequirements: the flow model.  sw and sr are the       *)
(* normalized records safeWorkload and safeResources; the other parameters *)
(* of an operator are the constants of the function it reads, under their  *)
(* names in the source.                                                    *)
(***************************************************************************)
\* Variant of totalMetricsPerSecond, for the sensitivity of the growth
\* property: a sum in place of the product.
totalMetricsPerSecondSum(sw) == Add(sw.requestsPerSecond, sw.metricsPerRequest)

totalMetricsPerSecond(sw) == Mul(sw.requestsPerSecond, sw.metricsPerRequest)

\* Variant of uniqueMetricsPerSecond, for the sensitivity of the flow
\* property: rounding down.
uniqueMetricsPerSecondFloor(total, sw) ==
  MathFloor(Mul(total, sw.uniqueMetricsRatio))

uniqueMetricsPerSecond(total, sw) == MathCeil(Mul(total, sw.uniqueMetricsRatio))

\* in steady state, writes/sec equals unique metrics/sec
writesPerSecond(unique) == unique

\* Variant of metricsPerInstance, for the sensitivity of the distribution
\* property: rounding down.
metricsPerInstanceFloor(total, sr) == MathFloor(Div(total, sr.statsdInstances))

metricsPerInstance(total, sr) == MathCeil(Div(total, sr.statsdInstances))

writesPerInstance(writes, sr) == MathCeil(Div(writes, sr.carbonInstances))

avgMetricSizeBytes == 50

(***************************************************************************)
(* CPU estimate                                                            *)
(***************************************************************************)
statsdCoordinationOverhead == Dec(15, 1000)

carbonCoordinationOverhead == Dec(1, 100)

totalStatsDLoad(total) == Div(total, Num(10000))

singleInstanceStatsDCpu(load) ==
  Mul(Mul(load, Add(Num(1), MathLog10(MathMax(Num(1), load)))), Dec(6, 10))

totalWriteLoad(writes) == Div(writes, Num(5000))

singleInstanceCarbonCpu(load) ==
  Mul(Mul(load, Add(Num(1), MathLog10(MathMax(Num(1), load)))), Dec(12, 10))

\* single is singleInstanceStatsDCpu
statsdCpuCores(single, sr) ==
  Add(Div(single, sr.statsdInstances),
      Mul(Mul(single, statsdCoordinationOverhead),
          Sub(sr.statsdInstances, Num(1))))

\* single is singleInstanceCarbonCpu
carbonCpuCores(single, sr) ==
  Add(Div(single, sr.carbonInstances),
      Mul(Mul(single, carbonCoordinationOverhead),
          Sub(sr.carbonInstances, Num(1))))

graphiteCpuCores(sw) ==
  Mul(Mul(Div(sw.calculationComplexity, Num(5)),
          Add(Num(1), Div(sw.calculationComplexity, Num(10)))),
      Dec(4, 10))

totalCpuRequired(total, writes, sw, sr) ==
  MathMax(Dec(1, 10),
          Add(Add(statsdCpuCores(
                    singleInstanceStatsDCpu(totalStatsDLoad(total)), sr),
                  carbonCpuCores(
                    singleInstanceCarbonCpu(totalWriteLoad(writes)), sr)),
              graphiteCpuCores(sw)))

(***************************************************************************)
(* Memory estimate                                                         *)
(***************************************************************************)
bytesPerMetricInMemory == 150

GiB == Num(1024 * 1024 * 1024)

MiB == Num(1024 * 1024)

statsdInstanceOverhead == Dec(5, 100)

carbonInstanceOverhead == Dec(75, 1000)

memoryEfficiency == Dec(85, 100)

singleInstanceStatsDMemory(unique, sw) ==
  Div(Mul(Mul(Mul(unique, sw.flushIntervalSeconds), Num(bytesPerMetricInMemory)),
          Dec(12, 10)),
      GiB)

singleInstanceCarbonMemory(unique) ==
  Div(Mul(Mul(unique, Num(10)), Num(bytesPerMetricInMemory)), GiB)

statsdMemoryGB(single, sr) ==
  Add(Div(Mul(single, memoryEfficiency), sr.statsdInstances),
      Mul(statsdInstanceOverhead, sr.statsdInstances))

writeLoadFactor(wpi) ==
  MathMin(Dec(12, 10), Add(Num(1), Mul(Div(wpi, Num(10000)), Dec(2, 10))))

carbonMemoryGB(single, wpi, sr) ==
  Add(Mul(Div(Mul(single, memoryEfficiency), sr.carbonInstances),
          writeLoadFactor(wpi)),
      Mul(carbonInstanceOverhead, sr.carbonInstances))

\* Variant of effectiveStatsDMemory, for the sensitivity of the memory bound:
\* no cap on the collectors' memory.
effectiveStatsDMemoryUncapped(single, sr) == statsdMemoryGB(single, sr)

\* single is singleInstanceStatsDMemory
effectiveStatsDMemory(single, sr) ==
  MathMin(statsdMemoryGB(single, sr),
          Add(Mul(single, Dec(4, 10)), statsdInstanceOverhead))

\* single is singleInstanceCarbonMemory
effectiveCarbonMemory(single, wpi, sr) ==
  MathMin(carbonMemoryGB(single, wpi, sr),
          Add(Mul(single, Dec(4, 10)), carbonInstanceOverhead))

baseGraphiteMemory == Dec(5, 10)

graphiteMemoryGB(unique, sw) ==
  Add(baseGraphiteMemory,
      Mul(Mul(Div(sw.calculationComplexity, Num(5)),
              Add(Num(1), Div(unique, Num(100000)))),
          Num(2)))

totalMemoryRequired(unique, wpi, sw, sr) ==
  MathMax(Dec(5, 10),
          Add(Add(effectiveStatsDMemory(
                    singleInstanceStatsDMemory(unique, sw), sr),
                  effectiveCarbonMemory(
                    singleInstanceCarbonMemory(unique), wpi, sr)),
              graphiteMemoryGB(unique, sw)))

(***************************************************************************)
(* Disk I/O estimate                                                       *)
(***************************************************************************)
baseIopsPerWrite == Dec(25, 10)

ioCoordinationOverhead == Dec(5, 1000)

effectiveBlockSize == 4096

metadataOverhead == Dec(115, 100)

randomIoFactor(unique) ==
  Add(Num(1), Mul(Div(unique, Num(6000)), Dec(4, 10)))

\* Variant of diskScalingFactor, for the sensitivity of the scaling property:
\* the coordination overhead without the division by the instance count
diskScalingFactorOverheadOnly(sr) ==
  Add(Num(1), Mul(ioCoordinationOverhead, Sub(sr.carbonInstances, Num(1))))

diskScalingFactor(sr) ==
  Mul(Div(Num(1), sr.carbonInstances),
      Add(Num(1), Mul(ioCoordinationOverhead, Sub(sr.carbonInstances, Num(1)))))

effectiveIopsPerWrite(unique, sr) ==
  Mul(Mul(baseIopsPerWrite, randomIoFactor(unique)), diskScalingFactor(sr))

bytesPerOperation ==
  Mul(Mul(MathCeil(Div(Num(100), Num(effectiveBlockSize))),
          Num(effectiveBlockSize)),
      metadataOverhead)

diskIopsRequired(unique, writes, sr) ==
  Mul(writes, effectiveIopsPerWrite(unique, sr))

\* Variant of CeilTenth, for the sensitivity of the positivity property:
\* Math.round(x * 10) / 10
RoundTenth(x) == Div(MathRound(Mul(x, Num(10))), Num(10))

\* Math.ceil(x * 10) / 10
CeilTenth(x) == Div(MathCeil(Mul(x, Num(10))), Num(10))

diskIORequired(unique, writes, sr) ==
  CeilTenth(Div(Mul(diskIopsRequired(unique, writes, sr), bytesPerOperation),
                MiB))

(***************************************************************************)
(* Network I/O estimate.  The per-instance figures perInstanceStatsDInbound *)
(* and perInstanceCarbonInbound enter the explanation string only.         *)
(***************************************************************************)
statsdToCarbonRatio == Dec(3, 10)

clientStatsDTraffic(total) ==
  Div(Mul(Mul(total, Num(avgMetricSizeBytes)), Num(8)), MiB)

\* client is clientStatsDTraffic
statsdToCarbonTraffic(client) == Mul(client, statsdToCarbonRatio)

queryTrafficMbps(client, sw) ==
  Mul(Mul(client, Dec(5, 100)), sw.calculationComplexity)

maxInboundTraffic(client) == MathMax(client, statsdToCarbonTraffic(client))

networkTraffic(client, sw) ==
  CeilTenth(Add(maxInboundTraffic(client), queryTrafficMbps(client, sw)))

totalNetworkRequired(total, sw) == networkTraffic(clientStatsDTraffic(total), sw)

(***************************************************************************)
(* Storage estimate                                                        *)
(***************************************************************************)
bytesPerStoredPoint == 12

pointsPerMetricPerDay == Div(Num(86400), Num(10))

dailyStorageGB(unique) ==
  Div(Mul(Mul(unique, pointsPerMetricPerDay), Num(bytesPerStoredPoint)), GiB)

(***************************************************************************)
(* Status classifier and the five Resource records                         *)
(***************************************************************************)
statusOfUtilization(utilization) ==
  IF Gt(utilization, Dec(9, 10)) THEN "critical"
  ELSE IF Gt(utilization, Dec(7, 10)) THEN "warning"
  ELSE "healthy"

\* Variant of getResourceStatus, for the sensitivity of the threshold
\* property: inclusive thresholds.
getResourceStatusInclusive(required, available) ==
  IF Ge(Div(required, available), Dec(9, 10)) THEN "critical"
  ELSE IF Ge(Div(required, available), Dec(7, 10)) THEN "warning"
  ELSE "healthy"

getResourceStatus(required, available) ==
  statusOfUtilization(Div(required, available))

cpuResource(totalCpu, sr) ==
  [value |-> CeilTenth(totalCpu),
   unit |-> "cores",
   status |-> getResourceStatus(totalCpu, sr.cpu),
   utilization |-> Div(totalCpu, sr.cpu)]

memoryResource(totalMemory, sr) ==
  [value |-> CeilTenth(totalMemory),
   unit |-> "GB",
   status |-> getResourceStatus(totalMemory, sr.memory),
   utilization |-> Div(totalMemory, sr.memory)]

\* Variant of diskIOResource, for the sensitivity of the utilization
\* property: a utilization clamped to 1.
diskIOResourceClamped(diskIO, sr) ==
  [value |-> diskIO,
   unit |-> "MB/s",
   status |-> getResourceStatus(diskIO, sr.diskIO),
   utilization |-> MathMin(Num(1), Div(diskIO, sr.diskIO))]

diskIOResource(diskIO, sr) ==
  [value |-> diskIO,
   unit |-> "MB/s",
   status |-> getResourceStatus(diskIO, sr.diskIO),
   utilization |-> Div(diskIO, sr.diskIO)]

\* Variant of networkIOResource, for the sensitivity of the frame property:
\* the traffic of one collector instance.
networkIOResourcePerCollector(totalNetwork, sr) ==
  [value |-> CeilTenth(Div(totalNetwork, sr.statsdInstances)),
   unit |-> "Mbps",
   status |-> getResourceStatus(totalNetwork, sr.networkIO),
   utilization |-> Div(Div(totalNetwork, sr.statsdInstances), sr.networkIO)]

networkIOResource(totalNetwork, sr) ==
  [value |-> totalNetwork,
   unit |-> "Mbps",
   status |-> getResourceStatus(totalNetwork, sr.networkIO),
   utilization |-> Div(totalNetwork, sr.networkIO)]

totalStorageRequired(dailyStorage, sw) ==
  Mul(dailyStorage, sw.retentionPeriodDays)

\* totalStorage is totalStorageRequired
storageResource(dailyStorage, totalStorage, sr) ==
  [value |-> CeilTenth(dailyStorage),
   unit |-> "GB/day",
   status |-> getResourceStatus(totalStorage, sr.storage),
   utilization |-> Div(totalStorage, sr.storage)]

Thrown == [threw |-> TRUE]

\* The function, in the order of its statements: each operator below binds
\* the values its part of the function computes and hands them on, so that a
\* value is computed once, as a const of the function is.

\* lines 299-376: the object returned
calculatedResult(sw, sr, total, unique, writes, mpi, wpi, totalCpu, totalMemory, diskIO, totalNetwork, dailyStorage, totalStorage) ==
  [threw |-> FALSE,
   requirements |->
     [cpu |-> cpuResource(totalCpu, sr),
      memory |-> memoryResource(totalMemory, sr),
      diskIO |-> diskIOResource(diskIO, sr),
      networkIO |-> networkIOResource(totalNetwork, sr),
      storage |-> storageResource(dailyStorage, totalStorage, sr)],
   flowMetrics |->
     [totalMetricsPerSecond |-> total,
      uniqueMetricsPerSecond |-> unique,
      writesPerSecond |-> writes,
      storagePerDay |-> dailyStorage,
      metricsPerInstance |-> mpi,
      writesPerInstance |-> wpi,
      totalStorageRequired |-> totalStorage]]

\* the storage estimate, with the estimates before it
calculateStorage(sw, sr, total, unique, writes, mpi, wpi, totalCpu, totalMemory, diskIO, totalNetwork, dailyStorage) ==
  calculatedResult(sw, sr, total, unique, writes, mpi, wpi, totalCpu,
                   totalMemory, diskIO, totalNetwork, dailyStorage,
                   totalStorageRequired(dailyStorage, sw))

\* lines 67-268: the five estimates
calculateEstimates(sw, sr, total, unique, writes, mpi, wpi) ==
  calculateStorage(sw, sr, total, unique, writes, mpi, wpi,
                   totalCpuRequired(total, writes, sw, sr),
                   totalMemoryRequired(unique, wpi, sw, sr),
                   diskIORequired(unique, writes, sr),
                   totalNetworkRequired(total, sw),
                   dailyStorageGB(unique))

\* lines 43-54: the flow of metrics through the tiers
calculateWrites(sw, sr, total, unique, writes) ==
  calculateEstimates(sw, sr, total, unique, writes,
                     metricsPerInstance(total, sr),
                     writesPerInstance(writes, sr))

calculateUnique(sw, sr, total, unique) ==
  calculateWrites(sw, sr, total, unique, writesPerSecond(unique))

calculateFlow(sw, sr, total) ==
  calculateUnique(sw, sr, total, uniqueMetricsPerSecond(total, sw))

calculateFromSafeInputs(sw, sr) ==
  calculateFlow(sw, sr, totalMetricsPerSecond(sw))

\* The whole function.  Reading a property throws only on a null or undefined
\* object, and the function reads its arguments through ?. alone.  The
\* explanation strings of the Resource records are left out.
calculateResourceRequirements(workload, userResources) ==
  IF (\E f \in WorkloadFields : OptionalChain(workload, f).k = "throw")
     \/ (\E f \in ResourceFields : OptionalChain(userResources, f).k = "throw")
  THEN Thrown
  ELSE calculateFromSafeInputs(safeWorkload(workload),
                               safeResources(userResources))

(***************************************************************************)
(* validateInstanceScaling                                                 *)
(***************************************************************************)
\* the sweeps run instances = 1 .. 8
SweepSize == 8

\* Variant of SpreadWithInstances, for the sensitivity of the sweep property:
\* a tier that is not swept keeps the caller's count.
SpreadKeepingCurrent(currentResources, s, c) ==
  [(IF currentResources.k \in {"null", "undefined"}
      THEN [k |-> "object", cpu |-> Undefined, memory |-> Undefined,
            diskIO |-> Undefined, networkIO |-> Undefined,
            storage |-> Undefined, statsdInstances |-> Undefined,
            carbonInstances |-> Undefined]
      ELSE currentResources)
   EXCEPT !.statsdInstances = IF s = 1 THEN @ ELSE Num(s),
          !.carbonInstances = IF c = 1 THEN @ ELSE Num(c)]

\* { ...currentResources, statsdInstances: s, carbonInstances: c }
\* (spreading null or undefined adds no property)
SpreadWithInstances(currentResources, s, c) ==
  [(IF currentResources.k \in {"null", "undefined"}
      THEN [k |-> "object", cpu |-> Undefined, memory |-> Undefined,
            diskIO |-> Undefined, networkIO |-> Undefined,
            storage |-> Undefined, statsdInstances |-> Undefined,
            carbonInstances |-> Undefined]
      ELSE currentResources)
   EXCEPT !.statsdInstances = Num(s), !.carbonInstances = Num(c)]

\* one pass of the collector (StatsD) loop; result is the pass's calculation
CollectorEntry(result, baselineResult, instances) ==
  LET cpuPer10kMetrics ==
        Div(result.requirements.cpu.value,
            Div(result.flowMetrics.totalMetricsPerSecond, Num(10000)))
      baselineCpuPer10kMetrics ==
        Div(baselineResult.requirements.cpu.value,
            Div(baselineResult.flowMetrics.totalMetricsPerSecond, Num(10000)))
      memoryPerUniqueMetric ==
        Div(result.requirements.memory.value,
            result.flowMetrics.uniqueMetricsPerSecond)
      baselineMemoryPerUniqueMetric ==
        Div(baselineResult.requirements.memory.value,
            baselineResult.flowMetrics.uniqueMetricsPerSecond)
  IN  [instances |-> Num(instances),
       metricsPerInstance |-> result.flowMetrics.metricsPerInstance,
       cpuEfficiency |-> Div(cpuPer10kMetrics, baselineCpuPer10kMetrics),
       memoryEfficiency |->
         Div(memoryPerUniqueMetric, baselineMemoryPerUniqueMetric),
       networkOverhead |->
         Div(result.requirements.networkIO.value,
             baselineResult.requirements.networkIO.value)]

\* the collector loop from pass `instances` on: the entries it pushes
RECURSIVE collectorScaling(_, _, _, _)
collectorScaling(workload, currentResources, baselineResult, instances) ==
  IF instances > SweepSize THEN << >>
  ELSE <<CollectorEntry(
           calculateResourceRequirements(workload,
             SpreadWithInstances(currentResources, instances, 1)),
           baselineResult, instances)>>
       \o collectorScaling(workload, currentResources, baselineResult,
                           instances + 1)

\* one pass of the processor (Carbon) loop; result is the pass's calculation
ProcessorEntry(result, baselineResult, instances) ==
  LET cpuPerWrite ==
        Div(result.requirements.cpu.value, result.flowMetrics.writesPerSecond)
      baselineCpuPerWrite ==
        Div(baselineResult.requirements.cpu.value,
            baselineResult.flowMetrics.writesPerSecond)
      memoryPerUniqueMetric ==
        Div(result.requirements.memory.value,
            result.flowMetrics.uniqueMetricsPerSecond)
      baselineMemoryPerUniqueMetric ==
        Div(baselineResult.requirements.memory.value,
            baselineResult.flowMetrics.uniqueMetricsPerSecond)
  IN  [instances |-> Num(instances),
       writesPerInstance |-> result.flowMetrics.writesPerInstance,
       cpuEfficiency |-> Div(cpuPerWrite, baselineCpuPerWrite),
       memoryEfficiency |->
         Div(memoryPerUniqueMetric, baselineMemoryPerUniqueMetric),
       diskIoEfficiency |->
         Div(result.requirements.diskIO.value,
             baselineResult.requirements.diskIO.value)]

\* the processor loop from pass `instances` on: the entries it pushes
RECURSIVE processorScaling(_, _, _, _)
processorScaling(workload, currentResources, baselineResult, instances) ==
  IF instances > SweepSize THEN << >>
  ELSE <<ProcessorEntry(
           calculateResourceRequirements(workload,
             SpreadWithInstances(currentResources, 1, instances)),
           baselineResult, instances)>>
       \o processorScaling(workload, currentResources, baselineResult,
                           instances + 1)

\* Variant of BestEfficiency, for the sensitivity of the ideal-count
\* property: the comparison <= in place of <.
RECURSIVE BestEfficiencyInclusive(_, _, _, _)
BestEfficiencyInclusive(efficiency, instances, i, best) ==
  IF i > Len(instances) THEN best
  ELSE IF Le(efficiency[i], best.efficiency)
       THEN BestEfficiencyInclusive(efficiency, instances, i + 1,
                                    [efficiency |-> efficiency[i],
                                     count |-> instances[i]])
       ELSE BestEfficiencyInclusive(efficiency, instances, i + 1, best)

\* the search loops for the best (lowest) efficiency: from entry i on, with the
\* best efficiency and the ideal count found so far
RECURSIVE BestEfficiency(_, _, _, _)
BestEfficiency(efficiency, instances, i, best) ==
  IF i > Len(instances) THEN best
  ELSE IF Lt(efficiency[i], best.efficiency)
       THEN BestEfficiency(efficiency, instances, i + 1,
                           [efficiency |-> efficiency[i], count |-> instances[i]])
       ELSE BestEfficiency(efficiency, instances, i + 1, best)

\* Math.max of the four real-time utilizations
HighestUtilization(requirements) ==
  MathMax(MathMax(requirements.cpu.utilization, requirements.memory.utilization),
          MathMax(requirements.diskIO.utilization,
                  requirements.networkIO.utilization))

\* the conversion to a number that a comparison applies to its operand
ToNumber(v) ==
  IF v.k = "undefined" THEN NaN ELSE IF v.k = "null" THEN Num(0) ELSE v

\* The recommendation: the template chosen and the numbers put into it.
Recommendation(kind, collectors, processors, gain) ==
  [kind |-> kind, collectors |-> collectors, processors |-> processors,
   gain |-> gain]

\* Variant of combinedScalingRecommendation, for the sensitivity of the
\* branch property: the disk utilization tested before the network
\* utilization.
combinedScalingRecommendationDiskFirst(baseResult, currentResources, idealCollectorCount, idealProcessorCount, collectorEfficiencyGain, processorEfficiencyGain) ==
  LET highestUtilization == HighestUtilization(baseResult.requirements)
      statsdInstances == Member(currentResources, "statsdInstances")
      carbonInstances == Member(currentResources, "carbonInstances")
  IN  IF Lt(highestUtilization, Dec(5, 10))
      THEN Recommendation("sufficient", Undefined, Undefined, Undefined)
      ELSE IF Lt(highestUtilization, Dec(7, 10))
      THEN IF statsdInstances.k = "throw"
           THEN Recommendation("throw", Undefined, Undefined, Undefined)
           ELSE IF Gt(idealCollectorCount, ToNumber(statsdInstances))
           THEN Recommendation("considerCollectors", idealCollectorCount,
                               Undefined, MathRound(collectorEfficiencyGain))
           ELSE IF Gt(idealProcessorCount, ToNumber(carbonInstances))
           THEN Recommendation("considerProcessors", Undefined,
                               idealProcessorCount,
                               MathRound(processorEfficiencyGain))
           ELSE Recommendation("optimal", Undefined, Undefined, Undefined)
      ELSE IF Lt(highestUtilization, Dec(9, 10))
      THEN IF Ge(baseResult.requirements.diskIO.utilization, Dec(7, 10))
           THEN Recommendation("increaseProcessors", Undefined,
                               idealProcessorCount,
                               MathRound(processorEfficiencyGain))
           ELSE IF Ge(baseResult.requirements.networkIO.utilization, Dec(7, 10))
           THEN Recommendation("scaleUpCollectors", idealCollectorCount,
                               Undefined, MathRound(collectorEfficiencyGain))
           ELSE Recommendation("scaleUpBoth", idealCollectorCount,
                               idealProcessorCount, Undefined)
      ELSE Recommendation("urgent", MathMax(idealCollectorCount, Num(2)),
                          MathMax(idealProcessorCount, Num(2)), Undefined)

combinedScalingRecommendation(baseResult, currentResources, idealCollectorCount, idealProcessorCount, collectorEfficiencyGain, processorEfficiencyGain) ==
  LET highestUtilization == HighestUtilization(baseResult.requirements)
      statsdInstances == Member(currentResources, "statsdInstances")
      carbonInstances == Member(currentResources, "carbonInstances")
  IN  IF Lt(highestUtilization, Dec(5, 10))
      THEN Recommendation("sufficient", Undefined, Undefined, Undefined)
      ELSE IF Lt(highestUtilization, Dec(7, 10))
      THEN IF statsdInstances.k = "throw"
           THEN Recommendation("throw", Undefined, Undefined, Undefined)
           ELSE IF Gt(idealCollectorCount, ToNumber(statsdInstances))
           THEN Recommendation("considerCollectors", idealCollectorCount,
                               Undefined, MathRound(collectorEfficiencyGain))
           ELSE IF Gt(idealProcessorCount, ToNumber(carbonInstances))
           THEN Recommendation("considerProcessors", Undefined,
                               idealProcessorCount,
                               MathRound(processorEfficiencyGain))
           ELSE Recommendation("optimal", Undefined, Undefined, Undefined)
      ELSE IF Lt(highestUtilization, Dec(9, 10))
      THEN IF Ge(baseResult.requirements.networkIO.utilization, Dec(7, 10))
           THEN Recommendation("scaleUpCollectors", idealCollectorCount,
                               Undefined, MathRound(collectorEfficiencyGain))
           ELSE IF Ge(baseResult.requirements.diskIO.utilization, Dec(7, 10))
           THEN Recommendation("increaseProcessors", Undefined,
                               idealProcessorCount,
                               MathRound(processorEfficiencyGain))
           ELSE Recommendation("scaleUpBoth", idealCollectorCount,
                               idealProcessorCount, Undefined)
      ELSE Recommendation("urgent", MathMax(idealCollectorCount, Num(2)),
                          MathMax(idealProcessorCount, Num(2)), Undefined)

Column(entries, f) == [i \in 1..Len(entries) |-> entries[i][f]]

\* The function, in the order of its statements: each operator below binds
\* the values its part of the function computes and hands them on.

\* lines 648-650: the object returned
scalingResult(collector, processor, bestCollector, bestProcessor, collectorEfficiencyGain, processorEfficiencyGain, recommendation) ==
  IF recommendation.kind = "throw" THEN Thrown
  ELSE [threw |-> FALSE,
        collectorScaling |->
          [instances |-> Column(collector, "instances"),
           metricsPerInstance |-> Column(collector, "metricsPerInstance"),
           cpuEfficiency |-> Column(collector, "cpuEfficiency"),
           memoryEfficiency |-> Column(collector, "memoryEfficiency"),
           networkOverhead |-> Column(collector, "networkOverhead")],
        processorScaling |->
          [instances |-> Column(processor, "instances"),
           writesPerInstance |-> Column(processor, "writesPerInstance"),
           cpuEfficiency |-> Column(processor, "cpuEfficiency"),
           memoryEfficiency |-> Column(processor, "memoryEfficiency"),
           diskIoEfficiency |-> Column(processor, "diskIoEfficiency")],
        analysis |->
          [collectorIdealCount |-> bestCollector.count,
           processorIdealCount |-> bestProcessor.count,
           collectorEfficiencyGain |->
             Div(MathRound(Mul(collectorEfficiencyGain, Num(10))), Num(10)),
           processorEfficiencyGain |->
             Div(MathRound(Mul(processorEfficiencyGain, Num(10))), Num(10)),
           combinedScalingRecommendation |-> recommendation]]

\* lines 614-646: the base calculation and the recommendation
scalingRecommendation(workload, currentResources, collector, processor, bestCollector, bestProcessor, collectorEfficiencyGain, processorEfficiencyGain) ==
  scalingResult(collector, processor, bestCollector, bestProcessor,
                collectorEfficiencyGain, processorEfficiencyGain,
                combinedScalingRecommendation(
                  calculateResourceRequirements(workload, currentResources),
                  currentResources, bestCollector.count, bestProcessor.count,
                  collectorEfficiencyGain, processorEfficiencyGain))

\* lines 587 and 603: the two efficiency gains
scalingGains(workload, currentResources, collector, processor, bestCollector, bestProcessor) ==
  scalingRecommendation(workload, currentResources, collector, processor,
                        bestCollector, bestProcessor,
                        Mul(Sub(Num(1), bestCollector.efficiency), Num(100)),
                        Mul(Sub(Num(1), bestProcessor.efficiency), Num(100)))

\* lines 574-600: the two ideal counts
scalingIdealCounts(workload, currentResources, collector, processor) ==
  scalingGains(workload, currentResources, collector, processor,
               BestEfficiency(Column(collector, "cpuEfficiency"),
                              Column(collector, "instances"), 1,
                              [efficiency |-> Num(1), count |-> Num(1)]),
               BestEfficiency(Column(processor, "diskIoEfficiency"),
                              Column(processor, "instances"), 1,
                              [efficiency |-> Num(1), count |-> Num(1)]))

\* lines 486-571: the two loops
scalingSweeps(workload, currentResources, baselineResult) ==
  IF baselineResult.threw THEN Thrown
  ELSE scalingIdealCounts(
         workload, currentResources,
         collectorScaling(workload, currentResources, baselineResult, 1),
         processorScaling(workload, currentResources, baselineResult, 1))

\* The whole function; lines 474-483 are the baseline calculation.
validateInstanceScaling(workload, currentResources) ==
  scalingSweeps(workload, currentResources,
                calculateResourceRequirements(workload,
                  SpreadWithInstances(currentResources, 1, 1)))

(***************************************************************************)
(* getScalingRecommendation and identifyBottleneck.  A returned string is  *)
(* the string of the source; the bottleneck message is the record of its   *)
(* template and of the name and the percentage put into it.                *)
(***************************************************************************)
\* Variant of maxUtilization, for the sensitivity of the advice properties:
\* the maximum over the five resources, storage included.
maxUtilizationWithStorage(requirements) ==
  MathMax(MathMax(MathMax(requirements.cpu.utilization,
                          requirements.memory.utilization),
                  MathMax(requirements.diskIO.utilization,
                          requirements.networkIO.utilization)),
          requirements.storage.utilization)

\* lines 393-398
maxUtilization(requirements) ==
  MathMax(MathMax(requirements.cpu.utilization, requirements.memory.utilization),
          MathMax(requirements.diskIO.utilization,
                  requirements.networkIO.utilization))

\* lines 400-408: the advice for a maximum utilization
adviceOfUtilization(utilization) ==
  IF Le(utilization, Dec(5, 10))
  THEN "Current resources are adequate with room for growth."
  ELSE IF Le(utilization, Dec(7, 10))
  THEN "Current resources are adequate but approaching capacity."
  ELSE IF Le(utilization, Dec(9, 10))
  THEN "Consider scaling the highlighted resources soon."
  ELSE "Immediate scaling recommended for highlighted resources."

getScalingRecommendation(requirements) ==
  adviceOfUtilization(maxUtilization(requirements))

\* Variant of bottleneckCandidates, for the sensitivity of the bottleneck
\* property: storage among the candidates.
bottleneckCandidatesWithStorage(requirements) ==
  <<[name |-> "CPU", utilization |-> requirements.cpu.utilization],
    [name |-> "Memory", utilization |-> requirements.memory.utilization],
    [name |-> "Disk I/O", utilization |-> requirements.diskIO.utilization],
    [name |-> "Network I/O", utilization |-> requirements.networkIO.utilization],
    [name |-> "Storage", utilization |-> requirements.storage.utilization]>>

\* lines 415-420: the array resources
bottleneckCandidates(requirements) ==
  <<[name |-> "CPU", utilization |-> requirements.cpu.utilization],
    [name |-> "Memory", utilization |-> requirements.memory.utilization],
    [name |-> "Disk I/O", utilization |-> requirements.diskIO.utilization],
    [name |-> "Network I/O", utilization |-> requirements.networkIO.utilization]>>

\* Array.prototype.sort with the comparator (a, b) => b.utilization -
\* a.utilization, on finite utilizations: the sort is stable, so an element
\* goes behind the elements the comparator does not put it before.
RECURSIVE sortInsert(_, _)
sortInsert(sorted, x) ==
  IF sorted = << >> THEN <<x>>
  ELSE IF Gt(Sub(x.utilization, Head(sorted).utilization), Num(0))
       THEN <<x>> \o sorted
       ELSE <<Head(sorted)>> \o sortInsert(Tail(sorted), x)

RECURSIVE sortByUtilization(_, _)
sortByUtilization(resources, sorted) ==
  IF resources = << >> THEN sorted
  ELSE sortByUtilization(Tail(resources), sortInsert(sorted, Head(resources)))

\* Variant of bottleneckMessage, for the sensitivity of the consistency
\* property: a bottleneck is reported above 0.95 only.
bottleneckMessageAboveNinetyFive(first) ==
  IF Gt(first.utilization, Dec(95, 100))
  THEN [message |-> "Primary bottleneck: name (percent% utilized)",
        name |-> first.name,
        percent |-> MathRound(Mul(first.utilization, Num(100)))]
  ELSE [message |-> "No significant bottlenecks detected",
        name |-> "", percent |-> Undefined]

\* lines 424-428: the message for the first element of the sorted array
bottleneckMessage(first) ==
  IF Gt(first.utilization, Dec(7, 10))
  THEN [message |-> "Primary bottleneck: name (percent% utilized)",
        name |-> first.name,
        percent |-> MathRound(Mul(first.utilization, Num(100)))]
  ELSE [message |-> "No significant bottlenecks detected",
        name |-> "", percent |-> Undefined]

identifyBottleneck(requirements) ==
  bottleneckMessage(
    sortByUtilization(bottleneckCandidates(requirements), << >>)[1])

(***************************************************************************)
(* formatNumber.  A string is the sequence of its characters.              *)
(***************************************************************************)
DigitChars == <<"0", "1", "2", "3", "4", "5", "6", "7", "8", "9">>

IsDigit(c) == \E i \in 1..10 : DigitChars[i] = c

\* the four decimal digits of a limb
LimbDigits(limb) ==
  <<DigitChars[(limb \div 1000) + 1], DigitChars[((limb \div 100) % 10) + 1],
    DigitChars[((limb \div 10) % 10) + 1], DigitChars[(limb % 10) + 1]>>

RECURSIVE BDigits(_)
BDigits(a) == IF Len(a) = 0 THEN << >> ELSE BDigits(Tail(a)) \o LimbDigits(a[1])

RECURSIVE StripLeadingZeros(_)
StripLeadingZeros(digits) ==
  IF Len(digits) > 1 /\ Head(digits) = "0"
  THEN StripLeadingZeros(Tail(digits)) ELSE digits

\* the decimal digits of a natural, "0" for zero
IntegerDigits(a) == StripLeadingZeros(<<"0">> \o BDigits(a))

\* the digits after the decimal point of r / d for r < d, where the
\* expansion ends
RECURSIVE FractionDigits(_, _)
FractionDigits(r, d) ==
  IF Len(r) = 0 THEN << >>
  ELSE <<DigitChars[BLimb(BDivMod(BMulSmall(r, 10), d)[1]) + 1]>>
       \o FractionDigits(BDivMod(BMulSmall(r, 10), d)[2], d)

\* qr is <<integer part, remainder>> of |num|
decimalString(sg, qr, d) ==
  (IF sg < 0 THEN <<"-">> ELSE << >>)
  \o IntegerDigits(qr[1])
  \o (IF Len(qr[2]) = 0 THEN << >> ELSE <<".">> \o FractionDigits(qr[2], d))

\* num.toString() for a finite number below 10^21 whose decimal expansion
\* ends: the decimal notation without exponent
numberToString(num) == decimalString(num.sg, BDivMod(num.n, num.d), num.d)

\* \w, on the characters of such a string (digits, - and .)
IsWordChar(c) == IsDigit(c)

\* \B at position p, between the characters p and p + 1 of s
notWordBoundary(s, p) ==
  (p >= 1 /\ IsWordChar(s[p])) <=> (p < Len(s) /\ IsWordChar(s[p + 1]))

\* the number of digits of s from character i on, up to the first character
\* that is no digit
RECURSIVE digitRun(_, _)
digitRun(s, i) ==
  IF i > Len(s) \/ ~IsDigit(s[i]) THEN 0 ELSE 1 + digitRun(s, i + 1)

\* (?=(\d{3})+(?!\d)) at position p: some positive multiple of three digits
\* follows and no digit follows them
groupsOfThreeAhead(s, p) ==
  digitRun(s, p + 1) >= 3 /\ digitRun(s, p + 1) % 3 = 0

\* replace(/\B(?=(\d{3})+(?!\d))/g, ","): a comma at every position where
\* the pattern matches the empty string; the function from position p on
RECURSIVE replaceWithCommas(_, _)
replaceWithCommas(s, p) ==
  (IF notWordBoundary(s, p) /\ groupsOfThreeAhead(s, p) THEN <<",">> ELSE << >>)
  \o (IF p < Len(s) THEN <<s[p + 1]>> \o replaceWithCommas(s, p + 1) ELSE << >>)

formatNumber(num) == replaceWithCommas(numberToString(num), 0)

(***************************************************************************)
(* The inputs of the model                                                 *)
(***************************************************************************)
Workload(rps, mpr, ratio, complexity, flush, retention) ==
  [k |-> "object",
   requestsPerSecond |-> rps, metricsPerRequest |-> mpr,
   uniqueMetricsRatio |-> ratio, calculationComplexity |-> complexity,
   flushIntervalSeconds |-> flush, retentionPeriodDays |-> retention]

Resources(cpu, memory, diskIO, networkIO, storage, statsd, carbon) ==
  [k |-> "object",
   cpu |-> cpu, memory |-> memory, diskIO |-> diskIO, networkIO |-> networkIO,
   storage |-> storage, statsdInstances |-> statsd, carbonInstances |-> carbon]

EmptyWorkload ==
  Workload(Undefined, Undefined, Undefined, Undefined, Undefined, Undefined)

EmptyResources ==
  Resources(Undefined, Undefined, Undefined, Undefined, Undefined, Undefined,
            Undefined)

NullWorkload == [EmptyWorkload EXCEPT !.k = "null"]

NullResources == [EmptyResources EXCEPT !.k = "null"]

UndefinedWorkload == [EmptyWorkload EXCEPT !.k = "undefined"]

NegativeWorkload ==
  Workload(Num(-100), Num(-10), Dec(-5, 10), Num(-2), Num(-5), Num(-30))

NegativeResources ==
  Resources(Num(-2), Num(-4), Num(-50), Num(-100), Num(-100), Num(-2), Num(-2))

ZeroWorkload == Workload(Num(0), Num(0), Num(0), Num(0), Num(0), Num(0))

ZeroResources ==
  Resources(Num(0), Num(0), Num(0), Num(0), Num(0), Num(0), Num(0))

NaNWorkload == Workload(NaN, Num(10), NaN, Null, NaN, Null)

PartialWorkload ==
  Workload(Num(100), Num(50), Undefined, Undefined, Undefined, Undefined)

HighVolumeWorkload ==
  Workload(Num(10000), Num(10), Dec(5, 10), Num(3), Num(10), Num(30))

\* a workload of five million unique metrics a second
MillionsWorkload ==
  Workload(Num(10000), Num(1000), Dec(5, 10), Num(3), Num(10), Num(30))

\* the largest instance count of a UserResources input
MaxInstances == 3

RequestRates == {Dec(5, 10), Num(7), Num(300)}

MetricsPerRequest == {Num(0), Num(1), Num(10)}

UniqueRatios == {Undefined, Dec(-5, 10), Dec(15, 10)}

WorkloadInputs ==
  {NullWorkload, UndefinedWorkload, EmptyWorkload, NegativeWorkload,
   ZeroWorkload, NaNWorkload, PartialWorkload, HighVolumeWorkload,
   MillionsWorkload}
  \cup {Workload(rps, mpr, ratio, Num(3), Num(10), Num(30)) :
          rps \in RequestRates, mpr \in MetricsPerRequest, ratio \in UniqueRatios}

\* cpu, memory, diskIO, networkIO, storage
Capacities ==
  {<<Num(1), Dec(25, 10), Num(4), Dec(16, 10), Num(1)>>,
   <<Num(1), Num(4), Num(7), Num(2), Num(10)>>,
   <<Num(4), Num(8), Num(100), Num(1000), Num(500)>>}

ResourceInputs ==
  {NullResources, EmptyResources, NegativeResources, ZeroResources}
  \cup {Resources(c[1], c[2], c[3], c[4], c[5], Num(s), Num(w)) :
          c \in Capacities, s \in 1..MaxInstances, w \in 1..MaxInstances}

\* the inputs of the scaling explorer's specification
\* a workload whose disk I/O requirement is 1.8 MB/s
BoundaryWorkload ==
  Workload(Num(300), Num(1), Dec(5, 10), Num(3), Num(10), Num(30))

ScalingWorkloadInputs ==
  {NullWorkload, EmptyWorkload, NegativeWorkload, ZeroWorkload, NaNWorkload,
   PartialWorkload, HighVolumeWorkload, BoundaryWorkload}
  \cup {Workload(Num(300), mpr, ratio, Num(3), Num(10), Num(30)) :
          mpr \in MetricsPerRequest, ratio \in UniqueRatios}

\* a configuration whose disk and network utilizations both lie between 0.7
\* and 0.9 under 3000 metrics per second, the disk utilization above
DiskAndNetworkLoaded ==
  Resources(Num(1), Num(4), Num(8), Num(2), Num(10), Num(1), Num(1))

\* capacities that put a utilization on a threshold: 0.1 cores of 0.2 (the
\* CPU floor of an idle workload), 1.8 MB/s of 2 (BoundaryWorkload)
CpuAtHalf == Resources(Dec(2, 10), Num(4), Num(100), Num(1000), Num(500), Num(1), Num(1))

DiskAtNineTenths == Resources(Num(4), Num(8), Num(2), Num(1000), Num(500), Num(1), Num(1))

ScalingResourceInputs ==
  {NullResources, EmptyResources, NegativeResources, ZeroResources,
   DiskAndNetworkLoaded, CpuAtHalf, DiskAtNineTenths}
  \cup {Resources(c[1], c[2], c[3], c[4], c[5], Num(s), Num(w)) :
          c \in Capacities, s \in {1, MaxInstances}, w \in {1, MaxInstances}}

\* the arguments of the advisors: utilizations on and around the thresholds,
\* one above 1 and one that rounds to the percent below
Utilizations ==
  {Dec(2, 10), Dec(5, 10), Dec(7, 10), Dec(704, 1000), Dec(9, 10),
   Dec(95, 100), Dec(15, 10)}

StorageUtilizations == {Dec(6, 10), Num(2)}

ResourceAt(unit, utilization) ==
  [value |-> Num(1), unit |-> unit,
   status |-> statusOfUtilization(utilization), utilization |-> utilization]

RequirementInputs ==
  {[cpu |-> ResourceAt("cores", c), memory |-> ResourceAt("GB", m),
    diskIO |-> ResourceAt("MB/s", d), networkIO |-> ResourceAt("Mbps", n),
    storage |-> ResourceAt("GB", st)] :
     c \in Utilizations, m \in Utilizations, d \in Utilizations,
     n \in Utilizations, st \in StorageUtilizations}

\* the arguments of formatNumber: integers of one to nine digits, negative
\* ones, and their quotients by 10, 100, 1000 and 10000
FormatIntegers ==
  {1, 12, 123, 999, 1234, 12345, 123456, 1234567, 12345678, 123456789,
   1000001, -123, -1234, -12345678}

NumberInputs ==
  {Num(0), Num(1000), Num(1500), Num(1000000), Num(1500000), Num(1000000000)}
  \cup {Dec(i, scale) : i \in FormatIntegers,
                        scale \in {1, 10, 100, 1000, 10000}}

\* the arguments of the calls of a caller that calls again and again
CallInputs ==
  {<<EmptyWorkload, NullResources>>,
   <<PartialWorkload, EmptyResources>>,
   <<Workload(Num(300), Num(10), Undefined, Num(3), Num(10), Num(30)),
     Resources(Num(1), Dec(25, 10), Num(4), Dec(16, 10), Num(1), Num(1),
               Num(MaxInstances))>>,
   <<Workload(Num(300), Num(10), Dec(15, 10), Num(3), Num(10), Num(30)),
     Resources(Num(4), Num(8), Num(100), Num(1000), Num(500),
               Num(MaxInstances), Num(1))>>,
   <<HighVolumeWorkload, DiskAndNetworkLoaded>>,
   <<ZeroWorkload, ZeroResources>>}

(***************************************************************************)
(* The state machine: a caller holds a workload and a resources record and *)
(* calls the entry points of the engine on them.  Spec is the estimator    *)
(* alone, on the full set of inputs; SpecScaling adds the scaling          *)
(* explorer, on fewer workloads.  SpecAdvice is a caller of the two        *)
(* advisors on a requirements record, SpecFormat a caller of formatNumber. *)
(* SpecSweep runs validateInstanceScaling statement by statement and       *)
(* counts its calls of the estimator.  SpecCalls is a caller that calls    *)
(* the estimator and the explorer again and again, on changing arguments.  *)
(* SpecHook is the useMetricsCalculation hook (or the Simulator component) *)
(* under user events, renders and effects; SpecDetails the detail toggles  *)
(* of ResourceDisplay and ResourceMetrics; SpecBoundary the ErrorBoundary. *)
(***************************************************************************)
VARIABLES workload, userResources, result, scaling, requirements, recommendation, bottleneck, num, formatted, sweep, hook, details, boundary

estimatorVars == <<workload, userResources, result, scaling>>

advisorVars == <<requirements, recommendation, bottleneck>>

formatterVars == <<num, formatted>>

\* the components of the presentation layer: the useMetricsCalculation hook
\* (or the Simulator component), the detail toggles of the resource display,
\* and the ErrorBoundary
uiVars == <<hook, details, boundary>>

vars == <<estimatorVars, advisorVars, formatterVars, sweep, uiVars>>

\* no call made yet
NoResult == [threw |-> FALSE, pending |-> TRUE]

Returned(r) == "pending" \notin DOMAIN r

\* validateInstanceScaling is not running
NoSweep ==
  [pc |-> "idle", instances |-> 0, calls |-> 0, baselineResult |-> NoResult,
   collector |-> << >>, processor |-> << >>]

EstimatorIdle ==
  /\ workload = NullWorkload
  /\ userResources = NullResources
  /\ result = NoResult
  /\ scaling = NoResult

AdvisorsIdle ==
  /\ requirements = NoResult
  /\ recommendation = ""
  /\ bottleneck = NoResult

FormatterIdle ==
  /\ num = Undefined
  /\ formatted = << >>

\* no component is mounted
Unmounted == [component |-> "none"]

UiIdle ==
  /\ hook = Unmounted
  /\ details = Unmounted
  /\ boundary = Unmounted

Init ==
  /\ workload \in WorkloadInputs
  /\ userResources \in ResourceInputs
  /\ result = NoResult
  /\ scaling = NoResult
  /\ AdvisorsIdle
  /\ FormatterIdle
  /\ sweep = NoSweep
  /\ UiIdle

Calculate ==
  /\ ~Returned(result)
  /\ result' = calculateResourceRequirements(workload, userResources)
  /\ UNCHANGED <<workload, userResources, scaling, advisorVars, formatterVars, sweep, uiVars>>

Next == Calculate

Spec == Init /\ [][Next]_vars

InitScaling ==
  /\ workload \in ScalingWorkloadInputs
  /\ userResources \in ScalingResourceInputs
  /\ result = NoResult
  /\ scaling = NoResult
  /\ AdvisorsIdle
  /\ FormatterIdle
  /\ sweep = NoSweep
  /\ UiIdle

ValidateScaling ==
  /\ ~Returned(scaling)
  /\ scaling' = validateInstanceScaling(workload, userResources)
  /\ UNCHANGED <<workload, userResources, result, advisorVars, formatterVars, sweep, uiVars>>

NextScaling == Calculate \/ ValidateScaling

SpecScaling == InitScaling /\ [][NextScaling]_vars

\* the advisors
InitAdvice ==
  /\ EstimatorIdle
  /\ requirements \in RequirementInputs
  /\ recommendation = ""
  /\ bottleneck = NoResult
  /\ FormatterIdle
  /\ sweep = NoSweep
  /\ UiIdle

Recommend ==
  /\ recommendation = ""
  /\ recommendation' = getScalingRecommendation(requirements)
  /\ UNCHANGED <<estimatorVars, requirements, bottleneck, formatterVars, sweep, uiVars>>

Identify ==
  /\ ~Returned(bottleneck)
  /\ bottleneck' = identifyBottleneck(requirements)
  /\ UNCHANGED <<estimatorVars, requirements, recommendation, formatterVars, sweep, uiVars>>

NextAdvice == Recommend \/ Identify

SpecAdvice == InitAdvice /\ [][NextAdvice]_vars

\* formatNumber
InitFormat ==
  /\ EstimatorIdle
  /\ AdvisorsIdle
  /\ num \in NumberInputs
  /\ formatted = << >>
  /\ sweep = NoSweep
  /\ UiIdle

Format ==
  /\ formatted = << >>
  /\ formatted' = formatNumber(num)
  /\ UNCHANGED <<estimatorVars, advisorVars, num, sweep, uiVars>>

NextFormat == Format

SpecFormat == InitFormat /\ [][NextFormat]_vars

\* validateInstanceScaling, statement by statement.  sweep holds the position
\* (pc), the loop variable, the results pushed so far and the number of calls
\* of calculateResourceRequirements made so far.
InitSweep ==
  /\ workload \in ScalingWorkloadInputs
  /\ userResources \in ScalingResourceInputs
  /\ result = NoResult
  /\ scaling = NoResult
  /\ AdvisorsIdle
  /\ FormatterIdle
  /\ sweep = [NoSweep EXCEPT !.pc = "baseline"]
  /\ UiIdle

\* Variant of loopContinues, for the sensitivity of the call count: a loop
\* that stops one pass early.
loopContinuesExclusive(instances) == instances < SweepSize

\* the condition instances <= 8 of the two for loops
loopContinues(instances) == instances <= SweepSize

\* lines 474-483
SweepBaseline ==
  /\ sweep.pc = "baseline"
  /\ sweep' =
       [sweep EXCEPT
          !.pc = "collector", !.instances = 1, !.calls = @ + 1,
          !.baselineResult =
            calculateResourceRequirements(
              workload, SpreadWithInstances(userResources, 1, 1))]
  /\ UNCHANGED <<estimatorVars, advisorVars, formatterVars, uiVars>>

\* lines 486-529: one pass of the collector loop
SweepCollector ==
  /\ sweep.pc = "collector"
  /\ loopContinues(sweep.instances)
  /\ sweep' =
       [sweep EXCEPT
          !.instances = @ + 1, !.calls = @ + 1,
          !.collector =
            Append(@, CollectorEntry(
                        calculateResourceRequirements(
                          workload,
                          SpreadWithInstances(userResources, sweep.instances, 1)),
                        sweep.baselineResult, sweep.instances))]
  /\ UNCHANGED <<estimatorVars, advisorVars, formatterVars, uiVars>>

\* the exit of the collector loop
SweepCollectorDone ==
  /\ sweep.pc = "collector"
  /\ ~loopContinues(sweep.instances)
  /\ sweep' = [sweep EXCEPT !.pc = "processor", !.instances = 1]
  /\ UNCHANGED <<estimatorVars, advisorVars, formatterVars, uiVars>>

\* lines 532-571: one pass of the processor loop
SweepProcessor ==
  /\ sweep.pc = "processor"
  /\ loopContinues(sweep.instances)
  /\ sweep' =
       [sweep EXCEPT
          !.instances = @ + 1, !.calls = @ + 1,
          !.processor =
            Append(@, ProcessorEntry(
                        calculateResourceRequirements(
                          workload,
                          SpreadWithInstances(userResources, 1, sweep.instances)),
                        sweep.baselineResult, sweep.instances))]
  /\ UNCHANGED <<estimatorVars, advisorVars, formatterVars, uiVars>>

\* the exit of the processor loop
SweepProcessorDone ==
  /\ sweep.pc = "processor"
  /\ ~loopContinues(sweep.instances)
  /\ sweep' = [sweep EXCEPT !.pc = "recommend"]
  /\ UNCHANGED <<estimatorVars, advisorVars, formatterVars, uiVars>>

\* lines 574-650: the analysis, the estimate of the current configuration
\* and the return
SweepRecommend ==
  /\ sweep.pc = "recommend"
  /\ scaling' = scalingIdealCounts(workload, userResources,
                                   sweep.collector, sweep.processor)
  /\ sweep' = [sweep EXCEPT !.pc = "done", !.calls = @ + 1]
  /\ UNCHANGED <<workload, userResources, result, advisorVars, formatterVars, uiVars>>

NextSweep ==
  \/ SweepBaseline
  \/ SweepCollector
  \/ SweepCollectorDone
  \/ SweepProcessor
  \/ SweepProcessorDone
  \/ SweepRecommend

SpecSweep == InitSweep /\ [][NextSweep]_vars

\* some statement of the call can run: the disjunction of the guards of the
\* six actions, each of which then changes sweep (this is ENABLED
\* <<NextSweep>>_vars, written without the estimates of the next state)
SweepEnabled ==
  \/ sweep.pc = "baseline"
  \/ sweep.pc = "collector" /\ loopContinues(sweep.instances)
  \/ sweep.pc = "collector" /\ ~loopContinues(sweep.instances)
  \/ sweep.pc = "processor" /\ loopContinues(sweep.instances)
  \/ sweep.pc = "processor" /\ ~loopContinues(sweep.instances)
  \/ sweep.pc = "recommend"

\* the function runs on once called (synchronous code: a statement that can
\* run does run); this is WF_vars(NextSweep) with ENABLED written out
SweepRunsOn == []<>(~SweepEnabled) \/ []<><<NextSweep>>_vars

SpecSweepFair == SpecSweep /\ SweepRunsOn

\* a caller that calls again and again
InitCalls ==
  /\ \E input \in CallInputs : workload = input[1] /\ userResources = input[2]
  /\ result = NoResult
  /\ scaling = NoResult
  /\ AdvisorsIdle
  /\ FormatterIdle
  /\ sweep = NoSweep
  /\ UiIdle

\* Variant of CallCalculate, for the sensitivity of the independence
\* property: an estimator that writes the corrected capacities and counts
\* back into the record passed to it.
CallCalculateInPlace ==
  /\ result' = calculateResourceRequirements(workload, userResources)
  /\ userResources' =
       IF userResources.k = "object"
         THEN [f \in DOMAIN userResources |->
                 IF f = "k" THEN "object" ELSE safeResources(userResources)[f]]
         ELSE userResources
  /\ UNCHANGED <<workload, scaling, advisorVars, formatterVars, sweep, uiVars>>

CallCalculate ==
  /\ result' = calculateResourceRequirements(workload, userResources)
  /\ UNCHANGED <<workload, userResources, scaling, advisorVars, formatterVars, sweep, uiVars>>

CallValidate ==
  /\ scaling' = validateInstanceScaling(workload, userResources)
  /\ UNCHANGED <<workload, userResources, result, advisorVars, formatterVars, sweep, uiVars>>

\* the caller takes other arguments for its next calls
ChooseInputs ==
  /\ \E input \in CallInputs :
       workload' = input[1] /\ userResources' = input[2]
  /\ UNCHANGED <<result, scaling, advisorVars, formatterVars, sweep, uiVars>>

NextCalls == CallCalculate \/ CallValidate \/ ChooseInputs

SpecCalls == InitCalls /\ [][NextCalls]_vars

(***************************************************************************)
(* The useMetricsCalculation hook and the Simulator component.  Both keep  *)
(* workload, userResources, requirements and flowMetrics in React state    *)
(* and run the same two effects.  A state setter queues an update; the     *)
(* next render applies the queued updates in order, to the state the last  *)
(* render committed; the handlers and the effects of a render see the      *)
(* state of that render.  The effects of a render run after it, the first  *)
(* before the second, and before the next render.                          *)
(***************************************************************************)
\* the user events of one run
MaxEvents == 2

DEFAULT_WORKLOAD ==
  Workload(Num(100), Num(100), Dec(2, 10), Num(3), Num(10), Num(30))

DEFAULT_USER_RESOURCES ==
  Resources(Num(2), Num(4), Num(50), Num(100), Num(100), Num(1), Num(1))

\* "Small App" and "Large App"
presets ==
  {[rps |-> Num(50), mpr |-> Num(100), ratio |-> Dec(2, 10),
    complexity |-> Num(2)],
   [rps |-> Num(500), mpr |-> Num(200), ratio |-> Dec(3, 10),
    complexity |-> Num(5)]}

\* "Medium (m5.xlarge)" and "Large (c5.2xlarge)"
resourcePresets ==
  {[cpu |-> Num(4), memory |-> Num(16), diskIO |-> Num(100),
    networkIO |-> Num(250)],
   [cpu |-> Num(8), memory |-> Num(32), diskIO |-> Num(200),
    networkIO |-> Num(500)]}

\* the edits of the workload sliders and of the resource sliders: a field
\* and its new value
WorkloadEdits == {<<"retentionPeriodDays", Num(7)>>}

ResourceEdits == {<<"storage", Num(500)>>, <<"statsdInstances", Num(2)>>}

\* setState(value) and setState((current) => ({ ...current, ...fields }))
ValueUpdate(value) == [kind |-> "value", value |-> value]

MergeUpdate(fields) == [kind |-> "merge", fields |-> fields]

\* { ...object, ...fields }
SpreadWith(object, fields) ==
  [f \in DOMAIN object |-> IF f \in DOMAIN fields THEN fields[f] ELSE object[f]]

ApplyUpdate(current, update) ==
  IF update.kind = "value" THEN update.value
  ELSE SpreadWith(current, update.fields)

\* the queued updates of one state cell, applied in the order they were queued
RECURSIVE ApplyUpdates(_, _)
ApplyUpdates(current, updates) ==
  IF updates = << >> THEN current
  ELSE ApplyUpdates(ApplyUpdate(current, Head(updates)), Tail(updates))

NoUpdates ==
  [workload |-> << >>, userResources |-> << >>, requirements |-> << >>,
   flowMetrics |-> << >>]

\* the first render of the component c
Mounted(c) ==
  [component |-> c,
   workload |-> DEFAULT_WORKLOAD,
   userResources |-> DEFAULT_USER_RESOURCES,
   requirements |-> Null,
   flowMetrics |-> Null,
   updates |-> NoUpdates,
   effects |-> {"calculate", "ensureDefaults"},
   events |-> 0,
   handler |-> [name |-> "mount"]]

InitHook ==
  /\ hook \in {Mounted("useMetricsCalculation"), Mounted("Simulator")}
  /\ details = Unmounted
  /\ boundary = Unmounted
  /\ EstimatorIdle
  /\ AdvisorsIdle
  /\ FormatterIdle
  /\ sweep = NoSweep

\* a handler of the last render queues update on the state cell
Queued(cell, update, handler) ==
  [hook EXCEPT !.updates[cell] = Append(@, update),
               !.events = @ + 1,
               !.handler = handler]

\* A handler runs on a user event or, with other handlers, in the event
\* handler of a consumer of the hook.  The Simulator runs one handler on one
\* click or slider change, and React renders the update of one such event
\* before it handles the next.
EventMayRun ==
  /\ hook.component # "none"
  /\ hook.events < MaxEvents
  /\ hook.component = "Simulator" => hook.updates = NoUpdates

HandlerMayRun(component) ==
  /\ hook.component = component
  /\ EventMayRun

workloadPresetFields(preset) ==
  [requestsPerSecond |-> preset.rps,
   metricsPerRequest |-> preset.mpr,
   uniqueMetricsRatio |-> preset.ratio,
   calculationComplexity |-> preset.complexity]

resourcePresetFields(preset) ==
  [cpu |-> preset.cpu, memory |-> preset.memory, diskIO |-> preset.diskIO,
   networkIO |-> preset.networkIO]

\* the hook: setWorkload((current) => ({ ...current, ... }))
applyWorkloadPreset ==
  /\ HandlerMayRun("useMetricsCalculation")
  /\ \E preset \in presets :
       hook' = Queued("workload", MergeUpdate(workloadPresetFields(preset)),
                      [name |-> "applyWorkloadPreset", preset |-> preset])
  /\ UNCHANGED <<estimatorVars, advisorVars, formatterVars, sweep, details, boundary>>

\* the hook: setUserResources((current) => ({ ...current, ... }))
applyResourcePreset ==
  /\ HandlerMayRun("useMetricsCalculation")
  /\ \E preset \in resourcePresets :
       hook' = Queued("userResources",
                      MergeUpdate(resourcePresetFields(preset)),
                      [name |-> "applyResourcePreset", preset |-> preset])
  /\ UNCHANGED <<estimatorVars, advisorVars, formatterVars, sweep, details, boundary>>

\* the Simulator: setWorkload({ ...workload, ... })
applyPreset ==
  /\ HandlerMayRun("Simulator")
  /\ \E preset \in presets :
       hook' = Queued("workload",
                      ValueUpdate(SpreadWith(hook.workload,
                                             workloadPresetFields(preset))),
                      [name |-> "applyWorkloadPreset", preset |-> preset])
  /\ UNCHANGED <<estimatorVars, advisorVars, formatterVars, sweep, details, boundary>>

\* the Simulator: setUserResources({ cpu: preset.cpu, .., storage: 100,
\* statsdInstances: userResources.statsdInstances, .. })
SimulatorApplyResourcePreset ==
  /\ HandlerMayRun("Simulator")
  /\ \E preset \in resourcePresets :
       hook' = Queued("userResources",
                      ValueUpdate(
                        Resources(preset.cpu, preset.memory, preset.diskIO,
                                  preset.networkIO, Num(100),
                                  hook.userResources.statsdInstances,
                                  hook.userResources.carbonInstances)),
                      [name |-> "applyResourcePreset", preset |-> preset])
  /\ UNCHANGED <<estimatorVars, advisorVars, formatterVars, sweep, details, boundary>>

\* WorkloadInputs: setWorkload({ ...workload, [field]: value }), on the
\* setWorkload of either component
ChangeWorkload ==
  /\ EventMayRun
  /\ \E edit \in WorkloadEdits :
       hook' = Queued("workload",
                      ValueUpdate([hook.workload EXCEPT ![edit[1]] = edit[2]]),
                      [name |-> "setWorkload", field |-> edit[1]])
  /\ UNCHANGED <<estimatorVars, advisorVars, formatterVars, sweep, details, boundary>>

\* UserResourceConfig.handleChange:
\* setUserResources((prev) => ({ ...prev, [key]: value })), on the
\* setUserResources of either component
ChangeResource ==
  /\ EventMayRun
  /\ \E edit \in ResourceEdits :
       hook' = Queued("userResources",
                      MergeUpdate([f \in {edit[1]} |-> edit[2]]),
                      [name |-> "setUserResources", field |-> edit[1]])
  /\ UNCHANGED <<estimatorVars, advisorVars, formatterVars, sweep, details, boundary>>

UpdatesQueued == hook.component # "none" /\ hook.updates # NoUpdates

EffectsPending == hook.component # "none" /\ hook.effects # {}

\* the effects whose dependencies the queued updates change: every update
\* queues a new object
EffectsToRun ==
  {"ensureDefaults"}
    \cup (IF hook.updates.workload # << >> \/ hook.updates.userResources # << >>
            THEN {"calculate"} ELSE {})

\* a render: the queued updates are applied and the effects whose
\* dependencies changed are scheduled
Render ==
  /\ UpdatesQueued
  /\ ~EffectsPending
  /\ hook' =
       [hook EXCEPT
          !.workload = ApplyUpdates(@, hook.updates.workload),
          !.userResources = ApplyUpdates(@, hook.updates.userResources),
          !.requirements = ApplyUpdates(@, hook.updates.requirements),
          !.flowMetrics = ApplyUpdates(@, hook.updates.flowMetrics),
          !.updates = NoUpdates,
          !.effects = EffectsToRun]
  /\ UNCHANGED <<estimatorVars, advisorVars, formatterVars, sweep, details, boundary>>

\* setRequirements(requirements); setFlowMetrics(flowMetrics) when set holds
SetFromResult(calculated, setRequirements, setFlowMetrics, effect) ==
  [hook EXCEPT
     !.updates.requirements =
        IF setRequirements THEN Append(@, ValueUpdate(calculated.requirements))
        ELSE @,
     !.updates.flowMetrics =
        IF setFlowMetrics THEN Append(@, ValueUpdate(calculated.flowMetrics))
        ELSE @,
     !.effects = @ \ {effect}]

\* Variant of CalculateEffect, for the sensitivity of the recomputation
\* property: the effect calculates on the initial state of the component.
CalculateEffectOnInitialState ==
  /\ EffectsPending
  /\ "calculate" \in hook.effects
  /\ hook' = SetFromResult(
               calculateResourceRequirements(DEFAULT_WORKLOAD,
                                             DEFAULT_USER_RESOURCES),
               TRUE, TRUE, "calculate")
  /\ UNCHANGED <<estimatorVars, advisorVars, formatterVars, sweep, details, boundary>>

\* the effect on [workload, userResources]
CalculateEffect ==
  /\ EffectsPending
  /\ "calculate" \in hook.effects
  /\ hook' = SetFromResult(
               calculateResourceRequirements(hook.workload, hook.userResources),
               TRUE, TRUE, "calculate")
  /\ UNCHANGED <<estimatorVars, advisorVars, formatterVars, sweep, details, boundary>>

\* the effect on [requirements, flowMetrics, workload, userResources]
EnsureDefaultsEffect ==
  /\ EffectsPending
  /\ hook.effects = {"ensureDefaults"}
  /\ hook' =
       IF hook.requirements = Null \/ hook.flowMetrics = Null
       THEN SetFromResult(
              calculateResourceRequirements(hook.workload, hook.userResources),
              hook.requirements = Null, hook.flowMetrics = Null,
              "ensureDefaults")
       ELSE [hook EXCEPT !.effects = {}]
  /\ UNCHANGED <<estimatorVars, advisorVars, formatterVars, sweep, details, boundary>>

NextHook ==
  \/ applyWorkloadPreset
  \/ applyResourcePreset
  \/ applyPreset
  \/ SimulatorApplyResourcePreset
  \/ ChangeWorkload
  \/ ChangeResource
  \/ Render
  \/ CalculateEffect
  \/ EnsureDefaultsEffect

SpecHook == InitHook /\ [][NextHook]_vars

\* React runs a scheduled effect and renders a queued update
HookStepEnabled == UpdatesQueued \/ EffectsPending

HookRunsOn ==
  []<>(~HookStepEnabled)
    \/ []<><<Render \/ CalculateEffect \/ EnsureDefaultsEffect>>_vars

SpecHookFair == SpecHook /\ HookRunsOn

(***************************************************************************)
(* The detail toggles of ResourceDisplay and of ResourceMetrics.  Each     *)
(* keeps expandedSection and showAllDetails in React state; a handler runs *)
(* on a click, and React renders the update of a click before the next     *)
(* click is handled, so a handler sees the state as it is.  log is the     *)
(* sequence of the buttons clicked: "all" or the key of a gauge.           *)
(***************************************************************************)
\* the clicks of one run
MaxToggles == 4

GaugeKeys == {"cpu", "memory", "diskIO", "networkIO", "storage"}

\* the first render of the component c
DetailsMounted(c, initialShowAll) ==
  [component |-> c, expandedSection |-> "null",
   showAllDetails |-> initialShowAll, log |-> << >>]

InitDetails ==
  /\ details \in {DetailsMounted("ResourceDisplay", FALSE)}
                   \cup {DetailsMounted("ResourceMetrics", initialShowAll) :
                           initialShowAll \in BOOLEAN}
  /\ hook = Unmounted
  /\ boundary = Unmounted
  /\ EstimatorIdle
  /\ AdvisorsIdle
  /\ FormatterIdle
  /\ sweep = NoSweep

ToggleMayRun(component) ==
  /\ details.component = component
  /\ Len(details.log) < MaxToggles

\* ResourceDisplay:
\* setExpandedSection(expandedSection === section ? null : section)
toggleSection ==
  /\ ToggleMayRun("ResourceDisplay")
  /\ \E section \in GaugeKeys :
       details' =
         [details EXCEPT
            !.expandedSection = IF @ = section THEN "null" ELSE section,
            !.log = Append(@, section)]
  /\ UNCHANGED <<estimatorVars, advisorVars, formatterVars, sweep, hook, boundary>>

\* ResourceDisplay:
\* setShowAllDetails(!showAllDetails); setExpandedSection(null)
toggleAllDetails ==
  /\ ToggleMayRun("ResourceDisplay")
  /\ details' =
       [details EXCEPT
          !.showAllDetails = ~@,
          !.expandedSection = "null",
          !.log = Append(@, "all")]
  /\ UNCHANGED <<estimatorVars, advisorVars, formatterVars, sweep, hook, boundary>>

\* ResourceMetrics:
\* setExpandedSection((prev) => (prev === section ? null : section))
ResourceMetricsToggleSection ==
  /\ ToggleMayRun("ResourceMetrics")
  /\ \E section \in GaugeKeys :
       details' =
         [details EXCEPT
            !.expandedSection = IF @ = section THEN "null" ELSE section,
            !.log = Append(@, section)]
  /\ UNCHANGED <<estimatorVars, advisorVars, formatterVars, sweep, hook, boundary>>

\* ResourceMetrics: setShowAllDetails(!showAllDetails)
ResourceMetricsToggleAllDetails ==
  /\ ToggleMayRun("ResourceMetrics")
  /\ details' =
       [details EXCEPT !.showAllDetails = ~@, !.log = Append(@, "all")]
  /\ UNCHANGED <<estimatorVars, advisorVars, formatterVars, sweep, hook, boundary>>

NextDetails ==
  \/ toggleSection
  \/ toggleAllDetails
  \/ ResourceMetricsToggleSection
  \/ ResourceMetricsToggleAllDetails

SpecDetails == InitDetails /\ [][NextDetails]_vars

\* the gauge of the resource shows its details
showDetails(resourceKey) ==
  details.showAllDetails \/ details.expandedSection = resourceKey

(***************************************************************************)
(* ErrorBoundary.  The state is { hasError, error }; the props are the     *)
(* children, fallback and onReset.  shouldThrow says whether the child     *)
(* throws when it is rendered; shown is what the last finished render      *)
(* returned.  A render is pending after the mount, after a setState and    *)
(* after a change of the child.                                            *)
(***************************************************************************)
\* the resets and the changes of the child of one run
MaxBoundaryEvents == 3

\* fallback: absent, null or an element; onReset: absent, a callback that
\* leaves the child as it is, or one that stops the child throwing
FallbackProps == {"undefined", "null", "element"}

OnResetProps == {"undefined", "keepsChild", "repairsChild"}

\* if (this.props.fallback), if (this.props.onReset)
IsTruthyProp(prop) == prop \notin {"undefined", "null"}

\* constructor: this.state = { hasError: false, error: null }
BoundaryMounted(fallback, onReset, shouldThrow) ==
  [component |-> "ErrorBoundary",
   hasError |-> FALSE, error |-> "null",
   fallback |-> fallback, onReset |-> onReset,
   shouldThrow |-> shouldThrow,
   renderPending |-> TRUE, shown |-> "nothing",
   resets |-> 0, onResetCalls |-> 0, events |-> 0]

InitBoundary ==
  /\ boundary \in {BoundaryMounted(fallback, onReset, shouldThrow) :
                     fallback \in FallbackProps, onReset \in OnResetProps,
                     shouldThrow \in BOOLEAN}
  /\ hook = Unmounted
  /\ details = Unmounted
  /\ EstimatorIdle
  /\ AdvisorsIdle
  /\ FormatterIdle
  /\ sweep = NoSweep

RenderPending == boundary.component # "none" /\ boundary.renderPending

\* render() returns without a throw: the fallback or the default panel in
\* the error state, the children otherwise
render ==
  /\ RenderPending
  /\ boundary.hasError \/ ~boundary.shouldThrow
  /\ boundary' =
       [boundary EXCEPT
          !.renderPending = FALSE,
          !.shown = IF boundary.hasError
                    THEN (IF IsTruthyProp(boundary.fallback)
                            THEN "fallback" ELSE "panel")
                    ELSE "children"]
  /\ UNCHANGED <<estimatorVars, advisorVars, formatterVars, sweep, hook, details>>

\* a child throws while the children are rendered:
\* getDerivedStateFromError(error) gives the state of the next render
getDerivedStateFromError ==
  /\ RenderPending
  /\ ~boundary.hasError
  /\ boundary.shouldThrow
  /\ boundary' = [boundary EXCEPT !.hasError = TRUE, !.error = "Error"]
  /\ UNCHANGED <<estimatorVars, advisorVars, formatterVars, sweep, hook, details>>

\* "Try again" is a button of the default panel
ResetMayRun ==
  /\ boundary.component # "none"
  /\ ~boundary.renderPending
  /\ boundary.shown = "panel"
  /\ boundary.events < MaxBoundaryEvents

\* Variant of handleReset, for the sensitivity of the reset property: the
\* callback is invoked before and after the setState.
handleResetCallingTwice ==
  /\ ResetMayRun
  /\ boundary' =
       [boundary EXCEPT
          !.hasError = FALSE,
          !.error = "null",
          !.onResetCalls =
             IF IsTruthyProp(boundary.onReset) THEN @ + 2 ELSE @,
          !.shouldThrow =
             IF boundary.onReset = "repairsChild" THEN FALSE ELSE @,
          !.resets = @ + 1,
          !.events = @ + 1,
          !.renderPending = TRUE]
  /\ UNCHANGED <<estimatorVars, advisorVars, formatterVars, sweep, hook, details>>

\* handleReset: this.setState({ hasError: false, error: null });
\* if (this.props.onReset) this.props.onReset()
handleReset ==
  /\ ResetMayRun
  /\ boundary' =
       [boundary EXCEPT
          !.hasError = FALSE,
          !.error = "null",
          !.onResetCalls =
             IF IsTruthyProp(boundary.onReset) THEN @ + 1 ELSE @,
          !.shouldThrow =
             IF boundary.onReset = "repairsChild" THEN FALSE ELSE @,
          !.resets = @ + 1,
          !.events = @ + 1,
          !.renderPending = TRUE]
  /\ UNCHANGED <<estimatorVars, advisorVars, formatterVars, sweep, hook, details>>

\* the child is rendered again, on a change of its state or props, and
\* throws or does not
ChildChanges ==
  /\ boundary.component # "none"
  /\ ~boundary.renderPending
  /\ boundary.shown = "children"
  /\ boundary.events < MaxBoundaryEvents
  /\ \E shouldThrow \in BOOLEAN :
       boundary' = [boundary EXCEPT !.shouldThrow = shouldThrow,
                                    !.events = @ + 1,
                                    !.renderPending = TRUE]
  /\ UNCHANGED <<estimatorVars, advisorVars, formatterVars, sweep, hook, details>>

NextBoundary ==
  \/ render
  \/ getDerivedStateFromError
  \/ handleReset
  \/ ChildChanges

SpecBoundary == InitBoundary /\ [][NextBoundary]_vars

\* React finishes a pending render
BoundaryRunsOn ==
  []<>(~RenderPending) \/ []<><<render \/ getDerivedStateFromError>>_vars

SpecBoundaryFair == SpecBoundary /\ BoundaryRunsOn

(***************************************************************************)
(* Vocabulary of the properties                                            *)
(***************************************************************************)
ResourceKeys == {"cpu", "memory", "diskIO", "networkIO", "storage"}

FlowKeys ==
  {"totalMetricsPerSecond", "uniqueMetricsPerSecond", "writesPerSecond",
   "storagePerDay", "metricsPerInstance", "writesPerInstance",
   "totalStorageRequired"}

\* calculateResourceRequirements has returned a result
Calculated == Returned(result) /\ ~result.threw

\* validateInstanceScaling has returned a result
Validated == Returned(scaling) /\ ~scaling.threw

Req == result.requirements

Flow == result.flowMetrics

NormWorkload == safeWorkload(workload)

NormResources == safeResources(userResources)

\* the property of the argument, undefined when the argument is no object
RawField(obj, f) == IF obj.k = "object" THEN obj[f] ELSE Undefined

IsInteger(a) == a.k = "fin" /\ Len(BDivMod(a.n, a.d)[2]) = 0

\* c is the least integer that is >= x
IsCeilOf(c, x) == IsInteger(c) /\ Ge(c, x) /\ Lt(Sub(c, Num(1)), x)

\* a field of an input record lies in its range of the data model: absent, or
\* a number that is at least lo
InRange(v, lo) == v.k = "undefined" \/ Ge(v, lo)

ValidWorkload ==
  /\ InRange(RawField(workload, "requestsPerSecond"), Num(0))
  /\ InRange(RawField(workload, "metricsPerRequest"), Num(0))
  /\ InRange(RawField(workload, "uniqueMetricsRatio"), Num(0))
  /\ ~Gt(RawField(workload, "uniqueMetricsRatio"), Num(1))
  /\ InRange(RawField(workload, "calculationComplexity"), Num(1))
  /\ InRange(RawField(workload, "flushIntervalSeconds"), Num(1))
  /\ InRange(RawField(workload, "retentionPeriodDays"), Num(1))

ValidResources ==
  /\ InRange(RawField(userResources, "cpu"), Dec(1, 10))
  /\ InRange(RawField(userResources, "memory"), Dec(1, 10))
  /\ InRange(RawField(userResources, "diskIO"), Num(1))
  /\ InRange(RawField(userResources, "networkIO"), Num(1))
  /\ InRange(RawField(userResources, "storage"), Num(1))
  /\ InRange(RawField(userResources, "statsdInstances"), Num(1))
  /\ InRange(RawField(userResources, "carbonInstances"), Num(1))

ValidInput == ValidWorkload /\ ValidResources

Zero == Num(0)

(***************************************************************************)
(* C1                                                                      *)
(***************************************************************************)
StatusMatchesUtilization(r) ==
  /\ r.status = "critical" <=> Gt(r.utilization, Dec(9, 10))
  /\ r.status = "warning" <=>
       (Gt(r.utilization, Dec(7, 10)) /\ Le(r.utilization, Dec(9, 10)))
  /\ r.status = "healthy" <=> Le(r.utilization, Dec(7, 10))

\* C1: for each of the five returned resources the status is decided by the
\* returned utilization of the same resource: critical if and only if
\* utilization > 0.9, warning if and only if 0.7 < utilization <= 0.9,
\* healthy if and only if utilization <= 0.7.
C1_StatusFromUtilization ==
  Calculated => \A key \in ResourceKeys : StatusMatchesUtilization(Req[key])

\* a result with a resource at exactly 0.9, which is a warning
C1_BoundaryStatuses ==
  /\ Calculated
  /\ \E key \in ResourceKeys :
       NumEq(Req[key].utilization, Dec(9, 10)) /\ Req[key].status = "warning"

(***************************************************************************)
(* C2                                                                      *)
(***************************************************************************)
\* C2, as stated: for all valid inputs each of the five values is > 0 and each
\* utilization is >= 0.
C2_AllValuesPositive ==
  (Calculated /\ ValidInput) =>
    \A key \in ResourceKeys :
      Gt(Req[key].value, Zero) /\ Ge(Req[key].utilization, Zero)

\* C2, amended: for every input the cpu and memory values are > 0 and every
\* value and utilization is >= 0; the diskIO and storage values are > 0
\* exactly when uniqueMetricsPerSecond > 0, and the networkIO value is > 0
\* exactly when totalMetricsPerSecond > 0.
C2_ValuesPositiveUnderLoad ==
  Calculated =>
    /\ Gt(Req.cpu.value, Zero)
    /\ Gt(Req.memory.value, Zero)
    /\ \A key \in ResourceKeys :
         Ge(Req[key].value, Zero) /\ Ge(Req[key].utilization, Zero)
    /\ Gt(Req.diskIO.value, Zero) <=> Gt(Flow.uniqueMetricsPerSecond, Zero)
    /\ Gt(Req.storage.value, Zero) <=> Gt(Flow.uniqueMetricsPerSecond, Zero)
    /\ Gt(Req.networkIO.value, Zero) <=> Gt(Flow.totalMetricsPerSecond, Zero)

\* a valid input without load: the three load-driven values are 0
C2_ZeroWorkloadValues ==
  /\ Calculated
  /\ ValidInput
  /\ NumEq(Flow.totalMetricsPerSecond, Zero)
  /\ NumEq(Req.diskIO.value, Zero)
  /\ NumEq(Req.networkIO.value, Zero)
  /\ NumEq(Req.storage.value, Zero)
  /\ Gt(Req.cpu.value, Zero)

(***************************************************************************)
(* C3                                                                      *)
(***************************************************************************)
AllFinite(numbers) == \A i \in DOMAIN numbers : IsFinite(numbers[i])

\* C3: every numeric field returned by calculateResourceRequirements, every
\* entry of the cpuEfficiency, memoryEfficiency, networkOverhead and
\* diskIoEfficiency arrays and both efficiency gains returned by
\* validateInstanceScaling are finite.
C3_NoNonFiniteNumber ==
  /\ Calculated =>
       /\ \A key \in ResourceKeys :
            IsFinite(Req[key].value) /\ IsFinite(Req[key].utilization)
       /\ \A key \in FlowKeys : IsFinite(Flow[key])
  /\ Validated =>
       /\ AllFinite(scaling.collectorScaling.cpuEfficiency)
       /\ AllFinite(scaling.collectorScaling.memoryEfficiency)
       /\ AllFinite(scaling.collectorScaling.networkOverhead)
       /\ AllFinite(scaling.processorScaling.cpuEfficiency)
       /\ AllFinite(scaling.processorScaling.memoryEfficiency)
       /\ AllFinite(scaling.processorScaling.diskIoEfficiency)
       /\ IsFinite(scaling.analysis.collectorEfficiencyGain)
       /\ IsFinite(scaling.analysis.processorEfficiencyGain)

(***************************************************************************)
(* C4                                                                      *)
(***************************************************************************)
IsResource(r) ==
  /\ DOMAIN r = {"value", "unit", "status", "utilization"}
  /\ IsNumber(r.value)
  /\ IsNumber(r.utilization)
  /\ r.status \in {"healthy", "warning", "critical"}

\* C4: for any null, empty, partial, zero-valued or negative-valued workload
\* and resources records, calculateResourceRequirements returns, without
\* raising an error, a result with all five resources and all seven flow
\* metrics.
C4_CalculateIsTotal ==
  Returned(result) =>
    /\ ~result.threw
    /\ DOMAIN result.requirements = ResourceKeys
    /\ \A key \in ResourceKeys : IsResource(result.requirements[key])
    /\ DOMAIN result.flowMetrics = FlowKeys
    /\ \A key \in FlowKeys : IsNumber(result.flowMetrics[key])

\* the call on a null workload and null resources has returned
C4_NullRecordsCalculated ==
  Calculated /\ workload.k = "null" /\ userResources.k = "null"

(***************************************************************************)
(* C5                                                                      *)
(***************************************************************************)
\* C5, as stated: for each of the five resources the utilization is the
\* returned value divided by the normalized available capacity.
C5_UtilizationIsValueOverAvailable ==
  Calculated =>
    \A key \in ResourceKeys :
      NumEq(Req[key].utilization, Div(Req[key].value, NormResources[key]))

\* value is x rounded up to one decimal place
IsCeilTenthOf(value, x) == IsCeilOf(Mul(value, Num(10)), Mul(x, Num(10)))

\* C5, amended: the utilization is value / available for diskIO and
\* networkIO.  For cpu and memory the value is the required amount
\* utilization * available rounded up to one decimal place.  For storage the
\* utilization is flowMetrics.totalStorageRequired (storagePerDay times the
\* retention period) divided by the available storage, and the value is
\* storagePerDay rounded up to one decimal place.
C5_UtilizationOfEachResource ==
  Calculated =>
    /\ NumEq(Req.diskIO.utilization, Div(Req.diskIO.value, NormResources.diskIO))
    /\ NumEq(Req.networkIO.utilization,
             Div(Req.networkIO.value, NormResources.networkIO))
    /\ IsCeilTenthOf(Req.cpu.value, Mul(Req.cpu.utilization, NormResources.cpu))
    /\ IsCeilTenthOf(Req.memory.value,
                     Mul(Req.memory.utilization, NormResources.memory))
    /\ NumEq(Req.storage.utilization,
             Div(Flow.totalStorageRequired, NormResources.storage))
    /\ NumEq(Flow.totalStorageRequired,
             Mul(Flow.storagePerDay, NormWorkload.retentionPeriodDays))
    /\ IsCeilTenthOf(Req.storage.value, Flow.storagePerDay)

\* a result whose cpu and storage utilizations differ from value / available
\* and whose diskIO utilization exceeds 1
C5_RoundedValueDiffers ==
  /\ Calculated
  /\ Gt(Div(Req.cpu.value, NormResources.cpu), Req.cpu.utilization)
  /\ ~NumEq(Req.storage.utilization,
            Div(Req.storage.value, NormResources.storage))
  /\ Gt(Req.diskIO.utilization, Num(1))

(***************************************************************************)
(* C6                                                                      *)
(***************************************************************************)
Positive(a) == IsFinite(a) /\ Gt(a, Zero)

NonNegative(a) == IsFinite(a) /\ Ge(a, Zero)

\* C6, as stated: every field of the normalized records is finite and > 0,
\* except requestsPerSecond and metricsPerRequest, which may be zero.
C6_NormalizedFieldsPositive ==
  /\ \A f \in WorkloadFields \ {"requestsPerSecond", "metricsPerRequest"} :
       Positive(NormWorkload[f])
  /\ NonNegative(NormWorkload.requestsPerSecond)
  /\ NonNegative(NormWorkload.metricsPerRequest)
  /\ \A f \in ResourceFields : Positive(NormResources[f])

\* C6, amended: for every input whose fields are absent, null, NaN or finite
\* numbers, every field of the normalized records is finite and > 0, except
\* requestsPerSecond, metricsPerRequest and uniqueMetricsRatio, which may be
\* zero; uniqueMetricsRatio lies in 0..1 and is zero exactly for a negative
\* input ratio.
C6_NormalizedFieldsInRange ==
  /\ \A f \in WorkloadFields \
              {"requestsPerSecond", "metricsPerRequest", "uniqueMetricsRatio"} :
       Positive(NormWorkload[f])
  /\ NonNegative(NormWorkload.requestsPerSecond)
  /\ NonNegative(NormWorkload.metricsPerRequest)
  /\ NonNegative(NormWorkload.uniqueMetricsRatio)
  /\ Le(NormWorkload.uniqueMetricsRatio, Num(1))
  /\ NumEq(NormWorkload.uniqueMetricsRatio, Zero)
       <=> Lt(RawField(workload, "uniqueMetricsRatio"), Zero)
  /\ \A f \in ResourceFields : Positive(NormResources[f])

\* a calculation on a negative ratio, normalized to 0
C6_ZeroRatio ==
  /\ Calculated
  /\ Lt(RawField(workload, "uniqueMetricsRatio"), Zero)
  /\ NumEq(NormWorkload.uniqueMetricsRatio, Zero)
  /\ NumEq(Flow.uniqueMetricsPerSecond, Zero)
  /\ Gt(Flow.totalMetricsPerSecond, Zero)

(***************************************************************************)
(* C7                                                                      *)
(***************************************************************************)
WorkloadDefault ==
  [requestsPerSecond |-> Num(0), metricsPerRequest |-> Num(0),
   uniqueMetricsRatio |-> Dec(2, 10), calculationComplexity |-> Num(1),
   flushIntervalSeconds |-> Num(10), retentionPeriodDays |-> Num(1)]

WorkloadMinimum ==
  [requestsPerSecond |-> Num(0), metricsPerRequest |-> Num(0),
   uniqueMetricsRatio |-> Num(0), calculationComplexity |-> Num(1),
   flushIntervalSeconds |-> Num(1), retentionPeriodDays |-> Num(1)]

ResourceDefault ==
  [cpu |-> Num(1), memory |-> Num(1), diskIO |-> Num(10),
   networkIO |-> Num(10), storage |-> Num(10),
   statsdInstances |-> Num(1), carbonInstances |-> Num(1)]

ResourceMinimum ==
  [cpu |-> Dec(1, 10), memory |-> Dec(1, 10), diskIO |-> Num(1),
   networkIO |-> Num(1), storage |-> Num(1),
   statsdInstances |-> Num(1), carbonInstances |-> Num(1)]

\* missing, null, zero or NaN
NeedsDefault(v) ==
  v.k \in {"undefined", "null", "nan"} \/ (v.k = "fin" /\ v.sg = 0)

\* normalized is what the rule of the field makes of the raw field v
FollowsRule(normalized, v, default, minimum) ==
  IF NeedsDefault(v)
  THEN NumEq(normalized, IF Lt(default, minimum) THEN minimum ELSE default)
  ELSE NumEq(normalized, IF Lt(v, minimum) THEN minimum ELSE v)

\* C7: each field is normalized on its own: a missing, null, zero or NaN
\* field is replaced by its default, the result is raised to the field's
\* minimum, and uniqueMetricsRatio is lowered to at most 1; a null or missing
\* record is normalized like an empty record.
C7_NormalizationRules ==
  /\ \A f \in WorkloadFields \ {"uniqueMetricsRatio"} :
       FollowsRule(NormWorkload[f], RawField(workload, f),
                   WorkloadDefault[f], WorkloadMinimum[f])
  /\ IF Gt(RawField(workload, "uniqueMetricsRatio"), Num(1))
     THEN NumEq(NormWorkload.uniqueMetricsRatio, Num(1))
     ELSE FollowsRule(NormWorkload.uniqueMetricsRatio,
                      RawField(workload, "uniqueMetricsRatio"),
                      WorkloadDefault.uniqueMetricsRatio,
                      WorkloadMinimum.uniqueMetricsRatio)
  /\ \A f \in ResourceFields :
       FollowsRule(NormResources[f], RawField(userResources, f),
                   ResourceDefault[f], ResourceMinimum[f])
  /\ workload.k # "object" => NormWorkload = safeWorkload(EmptyWorkload)
  /\ userResources.k # "object" => NormResources = safeResources(EmptyResources)

\* a calculation on zero-valued records: the zero flush interval and the zero
\* diskIO are replaced by their defaults 10
C7_ZeroFieldsDefaulted ==
  /\ Calculated
  /\ NumEq(RawField(workload, "flushIntervalSeconds"), Zero)
  /\ NumEq(NormWorkload.flushIntervalSeconds, Num(10))
  /\ NumEq(RawField(userResources, "diskIO"), Zero)
  /\ NumEq(NormResources.diskIO, Num(10))

(***************************************************************************)
(* C8                                                                      *)
(***************************************************************************)
\* C8: totalMetricsPerSecond = requestsPerSecond x metricsPerRequest
\* (normalized); uniqueMetricsPerSecond = ceil(total x normalized ratio);
\* writesPerSecond = uniqueMetricsPerSecond; metricsPerInstance =
\* ceil(total / statsdInstances); writesPerInstance =
\* ceil(writesPerSecond / carbonInstances).
C8_FlowMetrics ==
  Calculated =>
    /\ NumEq(Flow.totalMetricsPerSecond,
             Mul(NormWorkload.requestsPerSecond, NormWorkload.metricsPerRequest))
    /\ IsCeilOf(Flow.uniqueMetricsPerSecond,
                Mul(Flow.totalMetricsPerSecond, NormWorkload.uniqueMetricsRatio))
    /\ NumEq(Flow.writesPerSecond, Flow.uniqueMetricsPerSecond)
    /\ IsCeilOf(Flow.metricsPerInstance,
                Div(Flow.totalMetricsPerSecond, NormResources.statsdInstances))
    /\ IsCeilOf(Flow.writesPerInstance,
                Div(Flow.writesPerSecond, NormResources.carbonInstances))

\* a result in which each of the three ceilings rounds a fraction up
C8_FractionsRoundedUp ==
  /\ Calculated
  /\ ~IsInteger(Mul(Flow.totalMetricsPerSecond, NormWorkload.uniqueMetricsRatio))
  /\ ~IsInteger(Div(Flow.totalMetricsPerSecond, NormResources.statsdInstances))
  /\ ~IsInteger(Div(Flow.writesPerSecond, NormResources.carbonInstances))

(***************************************************************************)
(* C9                                                                      *)
(***************************************************************************)
\* C9: the returned uniqueMetricsPerSecond is at most the returned
\* totalMetricsPerSecond.
C9_UniqueAtMostTotal ==
  Calculated => Le(Flow.uniqueMetricsPerSecond, Flow.totalMetricsPerSecond)

(***************************************************************************)
(* C10                                                                     *)
(***************************************************************************)
\* the flow metrics of the same workload on one StatsD and one Carbon
\* instance (metricsPerInstance reads statsdInstances alone, and
\* writesPerInstance carbonInstances alone)
SingleInstanceFlow ==
  calculateResourceRequirements(
    workload, SpreadWithInstances(userResources, 1, 1)).flowMetrics

\* C10, as stated: with N instances the per-instance load is exactly the
\* single-instance load divided by N, strictly smaller for N > 1, and
\* totalMetricsPerSecond is unchanged.
C10_LoadDividedExactly ==
  Calculated =>
    /\ NumEq(Flow.metricsPerInstance,
             Div(SingleInstanceFlow.metricsPerInstance,
                 NormResources.statsdInstances))
    /\ NumEq(Flow.writesPerInstance,
             Div(SingleInstanceFlow.writesPerInstance,
                 NormResources.carbonInstances))
    /\ Gt(NormResources.statsdInstances, Num(1)) =>
         Lt(Flow.metricsPerInstance, SingleInstanceFlow.metricsPerInstance)
    /\ Gt(NormResources.carbonInstances, Num(1)) =>
         Lt(Flow.writesPerInstance, SingleInstanceFlow.writesPerInstance)
    /\ NumEq(Flow.totalMetricsPerSecond,
             SingleInstanceFlow.totalMetricsPerSecond)

\* load is the single-instance load single on n instances: single / n
\* rounded up, which is smaller than single exactly when n > 1 and
\* single >= 2
IsShareOf(load, single, n) ==
  /\ IsCeilOf(load, Div(single, n))
  /\ Lt(load, single) <=> (Gt(n, Num(1)) /\ Ge(single, Num(2)))

\* C10, amended: for an integer count N >= 1, with N StatsD instances
\* metricsPerInstance is the single-instance metricsPerInstance divided by N
\* and rounded up to an integer, so it equals the quotient only when N
\* divides the single-instance value and is strictly smaller than the
\* single-instance value exactly when N > 1 and that value is at least 2;
\* the same holds of writesPerInstance and carbonInstances;
\* totalMetricsPerSecond is unchanged.
C10_LoadDividedAndRoundedUp ==
  Calculated =>
    /\ IsInteger(NormResources.statsdInstances)
    /\ IsInteger(NormResources.carbonInstances)
    /\ IsShareOf(Flow.metricsPerInstance, SingleInstanceFlow.metricsPerInstance,
                 NormResources.statsdInstances)
    /\ IsShareOf(Flow.writesPerInstance, SingleInstanceFlow.writesPerInstance,
                 NormResources.carbonInstances)
    /\ NumEq(Flow.totalMetricsPerSecond,
             SingleInstanceFlow.totalMetricsPerSecond)

\* a result on several StatsD instances that do not divide the
\* single-instance load, and one whose load of 1 stays 1 on several Carbon
\* instances
C10_IndivisibleLoad ==
  /\ Calculated
  /\ Gt(NormResources.statsdInstances, Num(1))
  /\ Gt(Flow.metricsPerInstance,
        Div(SingleInstanceFlow.metricsPerInstance,
            NormResources.statsdInstances))
  /\ Gt(NormResources.carbonInstances, Num(1))
  /\ NumEq(Flow.writesPerInstance, SingleInstanceFlow.writesPerInstance)

(***************************************************************************)
(* C11                                                                     *)
(***************************************************************************)
\* { ...resources, carbonInstances: c }
SpreadWithCarbon(resources, c) ==
  [SpreadWithInstances(resources, 1, c)
   EXCEPT !.statsdInstances = RawField(resources, "statsdInstances")]

\* the writer counts compared
CarbonCounts == 1..(MaxInstances + 1)

\* the diskIO resource of the same workload and resources on c writers
DiskIOWith(c) ==
  calculateResourceRequirements(
    workload, SpreadWithCarbon(userResources, c)).requirements.diskIO

\* the disk throughput in MB/s on c writers before it is rounded up to one
\* decimal place (the argument of Math.ceil at lines 206-208, over 10)
UnroundedDiskIO(c) ==
  Div(Mul(diskIopsRequired(Flow.uniqueMetricsPerSecond, Flow.writesPerSecond,
                           [NormResources EXCEPT !.carbonInstances = Num(c)]),
          bytesPerOperation),
      MiB)

\* the result in the state was computed on c writers
OnWriters(c) == Calculated /\ NumEq(NormResources.carbonInstances, Num(c))

\* C11, as stated: for writer counts c < c2, diskIO.value and
\* diskIO.utilization on c2 writers are strictly less than on c writers.
C11_DiskIOStrictlyDecreases ==
  \A c \in CarbonCounts, c2 \in CarbonCounts :
    (OnWriters(c) /\ c < c2) =>
      /\ Lt(DiskIOWith(c2).value, Req.diskIO.value)
      /\ Lt(DiskIOWith(c2).utilization, Req.diskIO.utilization)

\* C11, amended: for integer writer counts 1 <= c < c2, diskIO.value and
\* diskIO.utilization on c2 writers are never greater than on c writers;
\* the throughput before rounding is strictly less on c2 writers exactly
\* when uniqueMetricsPerSecond > 0, and the returned value and utilization
\* are strictly less whenever the throughputs before rounding differ by at
\* least 0.1 MB/s; without load both values are 0.
C11_DiskIONeverIncreases ==
  \A c \in CarbonCounts, c2 \in CarbonCounts :
    (OnWriters(c) /\ c < c2) =>
      /\ Le(DiskIOWith(c2).value, Req.diskIO.value)
      /\ Le(DiskIOWith(c2).utilization, Req.diskIO.utilization)
      /\ Lt(UnroundedDiskIO(c2), UnroundedDiskIO(c))
           <=> Gt(Flow.uniqueMetricsPerSecond, Zero)
      /\ Ge(Sub(UnroundedDiskIO(c), UnroundedDiskIO(c2)), Dec(1, 10)) =>
           /\ Lt(DiskIOWith(c2).value, Req.diskIO.value)
           /\ Lt(DiskIOWith(c2).utilization, Req.diskIO.utilization)
      /\ NumEq(Flow.uniqueMetricsPerSecond, Zero) =>
           /\ NumEq(DiskIOWith(c2).value, Zero)
           /\ NumEq(Req.diskIO.value, Zero)

\* a result under load, on one writer, whose diskIO value is the same on two
\* writers
C11_SameValueOnMoreWriters ==
  /\ OnWriters(1)
  /\ Gt(Flow.uniqueMetricsPerSecond, Zero)
  /\ NumEq(DiskIOWith(2).value, Req.diskIO.value)

(***************************************************************************)
(* C12                                                                     *)
(***************************************************************************)
\* { ...workload, requestsPerSecond: workload.requestsPerSecond * 2 }
DoubledWorkload ==
  [workload EXCEPT !.requestsPerSecond = Mul(@, Num(2))]

\* the result of the doubled workload on the same resources
Doubled == calculateResourceRequirements(DoubledWorkload, userResources)

\* the workload has requestsPerSecond > 0 and metricsPerRequest > 0
UnderLoad ==
  /\ Gt(RawField(workload, "requestsPerSecond"), Zero)
  /\ Gt(RawField(workload, "metricsPerRequest"), Zero)

\* C12, as stated: doubling requestsPerSecond of a workload under load
\* strictly increases cpu.value, diskIO.value and networkIO.value and does
\* not decrease memory.value.
C12_DoublingStrictlyIncreases ==
  (Calculated /\ UnderLoad) =>
    /\ Gt(Doubled.requirements.cpu.value, Req.cpu.value)
    /\ Gt(Doubled.requirements.diskIO.value, Req.diskIO.value)
    /\ Gt(Doubled.requirements.networkIO.value, Req.networkIO.value)
    /\ Ge(Doubled.requirements.memory.value, Req.memory.value)

\* C12, amended: doubling requestsPerSecond of a workload under load doubles
\* totalMetricsPerSecond and decreases none of cpu.value, memory.value,
\* diskIO.value, networkIO.value and uniqueMetricsPerSecond.  cpu.value is
\* strictly greater whenever the CPU requirement before rounding
\* (utilization x available) grows by at least 0.1 cores; diskIO.value is
\* strictly greater only if uniqueMetricsPerSecond is; networkIO.value is
\* strictly greater exactly when the doubled workload's value exceeds 0.1.
C12_DoublingNeverDecreases ==
  (Calculated /\ UnderLoad) =>
    /\ NumEq(Doubled.flowMetrics.totalMetricsPerSecond,
             Mul(Flow.totalMetricsPerSecond, Num(2)))
    /\ Ge(Doubled.flowMetrics.uniqueMetricsPerSecond,
          Flow.uniqueMetricsPerSecond)
    /\ \A key \in {"cpu", "memory", "diskIO", "networkIO"} :
         Ge(Doubled.requirements[key].value, Req[key].value)
    /\ Ge(Mul(Sub(Doubled.requirements.cpu.utilization, Req.cpu.utilization),
              NormResources.cpu),
          Dec(1, 10)) =>
         Gt(Doubled.requirements.cpu.value, Req.cpu.value)
    /\ Gt(Doubled.requirements.diskIO.value, Req.diskIO.value) =>
         Gt(Doubled.flowMetrics.uniqueMetricsPerSecond,
            Flow.uniqueMetricsPerSecond)
    /\ Gt(Doubled.requirements.networkIO.value, Req.networkIO.value)
         <=> Gt(Doubled.requirements.networkIO.value, Dec(1, 10))

\* a result under load whose cpu, diskIO and networkIO values are those of
\* the doubled workload
C12_SameValuesWhenDoubled ==
  /\ Calculated
  /\ UnderLoad
  /\ \A key \in {"cpu", "diskIO", "networkIO"} :
       NumEq(Doubled.requirements[key].value, Req[key].value)

(***************************************************************************)
(* C13                                                                     *)
(***************************************************************************)
\* the four resources the advisors read, with the names of the messages
RealTimeKeys == {"cpu", "memory", "diskIO", "networkIO"}

NameOfKey ==
  [key \in RealTimeKeys |->
     CASE key = "cpu" -> "CPU"
       [] key = "memory" -> "Memory"
       [] key = "diskIO" -> "Disk I/O"
       [] key = "networkIO" -> "Network I/O"]

\* the utilization of key is the largest of the four
IsHighest(key) ==
  \A other \in RealTimeKeys :
    Le(requirements[other].utilization, requirements[key].utilization)

\* percent is utilization x 100 rounded to the nearest integer
IsPercentOf(percent, utilization) ==
  /\ IsInteger(percent)
  /\ Le(Sub(percent, Dec(5, 10)), Mul(utilization, Num(100)))
  /\ Lt(Mul(utilization, Num(100)), Add(percent, Dec(5, 10)))

\* C13: identifyBottleneck reads cpu, memory, diskIO and networkIO alone (the
\* result is the same for every storage utilization); if the largest of the
\* four utilizations is > 0.7 the result is the primary-bottleneck message
\* with the name of a resource at that largest utilization and with
\* round(utilization x 100) percent, otherwise it is the
\* no-significant-bottleneck message.
C13_BottleneckIsHighestOfFour ==
  Returned(bottleneck) =>
    /\ \A st \in StorageUtilizations :
         identifyBottleneck(
           [requirements EXCEPT !.storage = ResourceAt("GB", st)]) = bottleneck
    /\ IF \E key \in RealTimeKeys :
            Gt(requirements[key].utilization, Dec(7, 10))
       THEN /\ bottleneck.message
                 = "Primary bottleneck: name (percent% utilized)"
            /\ \E key \in RealTimeKeys :
                 /\ IsHighest(key)
                 /\ bottleneck.name = NameOfKey[key]
                 /\ IsPercentOf(bottleneck.percent,
                                requirements[key].utilization)
       ELSE bottleneck.message = "No significant bottlenecks detected"

\* memory at 0.704 is reported as the bottleneck at 70%, while storage at 2
\* is the highest utilization of the record
C13_MemoryBelowStorage ==
  /\ Returned(bottleneck)
  /\ bottleneck.name = "Memory"
  /\ NumEq(bottleneck.percent, Num(70))
  /\ NumEq(requirements.memory.utilization, Dec(704, 1000))
  /\ NumEq(requirements.storage.utilization, Num(2))

(***************************************************************************)
(* C14                                                                     *)
(***************************************************************************)
\* the advice tier of the maximum utilization m
TierOf(m) ==
  CASE Le(m, Dec(5, 10)) ->
         "Current resources are adequate with room for growth."
    [] Gt(m, Dec(5, 10)) /\ Le(m, Dec(7, 10)) ->
         "Current resources are adequate but approaching capacity."
    [] Gt(m, Dec(7, 10)) /\ Le(m, Dec(9, 10)) ->
         "Consider scaling the highlighted resources soon."
    [] Gt(m, Dec(9, 10)) ->
         "Immediate scaling recommended for highlighted resources."

\* C14: getScalingRecommendation returns the advice tier of m, the largest
\* of the cpu, memory, diskIO and networkIO utilizations: room for growth
\* when m <= 0.5, approaching capacity when 0.5 < m <= 0.7, scaling soon
\* when 0.7 < m <= 0.9, immediate scaling when m > 0.9.
C14_AdviceTierOfMaximum ==
  recommendation # "" =>
    \E key \in RealTimeKeys :
      /\ IsHighest(key)
      /\ recommendation = TierOf(requirements[key].utilization)

\* a maximum of exactly 0.9 gets the advice to scale soon, while storage is
\* at 2
C14_BoundaryTier ==
  /\ recommendation = "Consider scaling the highlighted resources soon."
  /\ \E key \in RealTimeKeys :
       IsHighest(key) /\ NumEq(requirements[key].utilization, Dec(9, 10))
  /\ NumEq(requirements.storage.utilization, Num(2))

(***************************************************************************)
(* C15                                                                     *)
(***************************************************************************)
Sweep == 1..SweepSize

\* entry i holds a lowest ratio of the sweep
IsLowest(ratios, i) == \A j \in Sweep : Le(ratios[i], ratios[j])

\* C15, as stated: the ideal count of a tier is the swept count whose
\* tier-defining ratio is lowest (the network ratio for the collectors, the
\* disk-I/O ratio for the processors) and the reported gain is
\* (1 - that lowest ratio) x 100.
C15_IdealIsLowestTierRatio ==
  Validated =>
    /\ \E i \in Sweep :
         /\ NumEq(scaling.analysis.collectorIdealCount, Num(i))
         /\ IsLowest(scaling.collectorScaling.networkOverhead, i)
         /\ NumEq(scaling.analysis.collectorEfficiencyGain,
                  Mul(Sub(Num(1), scaling.collectorScaling.networkOverhead[i]),
                      Num(100)))
    /\ \E i \in Sweep :
         /\ NumEq(scaling.analysis.processorIdealCount, Num(i))
         /\ IsLowest(scaling.processorScaling.diskIoEfficiency, i)
         /\ NumEq(scaling.analysis.processorEfficiencyGain,
                  Mul(Sub(Num(1), scaling.processorScaling.diskIoEfficiency[i]),
                      Num(100)))

\* count and gain are the ideal count and the reported gain for the ratios
\* of a sweep: if no ratio is below 1 the count is 1 and the gain 0;
\* otherwise the count is the first swept count that no other ratio is
\* below, and the gain is (1 - its ratio) x 100 rounded to one decimal place
IsIdealFor(count, gain, ratios) ==
  IF \A i \in Sweep : ~Lt(ratios[i], Num(1))
  THEN NumEq(count, Num(1)) /\ NumEq(gain, Zero)
  ELSE \E i \in Sweep :
         /\ NumEq(count, Num(i))
         /\ Lt(ratios[i], Num(1))
         /\ \A j \in Sweep : ~Lt(ratios[j], ratios[i])
         /\ \A j \in 1..(i - 1) : ~NumEq(ratios[j], ratios[i])
         /\ NumEq(gain,
                  Div(MathRound(Mul(Mul(Sub(Num(1), ratios[i]), Num(100)),
                                    Num(10))),
                      Num(10)))

\* C15, amended: the tier-defining ratio is the CPU efficiency ratio for the
\* collectors and the disk-I/O ratio for the processors.  The ideal count is
\* the first swept count with the lowest ratio if that ratio is below 1, and
\* 1 otherwise (a ratio that is not a number is below nothing); the reported
\* gain is (1 - that ratio) x 100 rounded to one decimal place, and 0 if no
\* ratio is below 1.
C15_IdealIsFirstLowestBelowOne ==
  Validated =>
    /\ IsIdealFor(scaling.analysis.collectorIdealCount,
                  scaling.analysis.collectorEfficiencyGain,
                  scaling.collectorScaling.cpuEfficiency)
    /\ IsIdealFor(scaling.analysis.processorIdealCount,
                  scaling.analysis.processorEfficiencyGain,
                  scaling.processorScaling.diskIoEfficiency)

\* an analysis whose ideal collector count is above 1, with a gain, while the
\* network ratio is 1 all over the sweep
C15_CollectorsByCpuRatio ==
  /\ Validated
  /\ Gt(scaling.analysis.collectorIdealCount, Num(1))
  /\ Gt(scaling.analysis.collectorEfficiencyGain, Zero)
  /\ \A i \in Sweep : NumEq(scaling.collectorScaling.networkOverhead[i], Num(1))

(***************************************************************************)
(* C16                                                                     *)
(***************************************************************************)
\* the recommendation returned for the configuration whose estimate is in
\* result
Advice == scaling.analysis.combinedScalingRecommendation

\* both entry points have returned, and the largest of the four real-time
\* utilizations of the current configuration is at least 0.7 and below 0.9
InScalingBand ==
  /\ Calculated
  /\ Validated
  /\ Ge(HighestUtilization(Req), Dec(7, 10))
  /\ Lt(HighestUtilization(Req), Dec(9, 10))

\* the advice names a count of collectors, of processors
AdvisesCollectors == Advice.collectors.k # "undefined"

AdvisesProcessors == Advice.processors.k # "undefined"

\* C16, as stated: in the band the recommendation advises scaling the
\* collectors when the network utilization is the larger of the network and
\* the disk utilization, and scaling the processors when the disk
\* utilization is the larger.
C16_AdviceFollowsDominantUtilization ==
  InScalingBand =>
    /\ Ge(Req.networkIO.utilization, Req.diskIO.utilization) => AdvisesCollectors
    /\ Gt(Req.diskIO.utilization, Req.networkIO.utilization) => AdvisesProcessors

\* C16, amended: in the band 0.7 <= maximum < 0.9 the recommendation is to
\* scale up the collectors to their ideal count if the network utilization
\* is at least 0.7, whatever the disk utilization; otherwise to increase the
\* processors to their ideal count if the disk utilization is at least 0.7;
\* otherwise (cpu or memory is the loaded resource) to scale up both tiers
\* to their ideal counts.
C16_AdviceFollowsThresholds ==
  InScalingBand =>
    IF Ge(Req.networkIO.utilization, Dec(7, 10))
    THEN /\ Advice.kind = "scaleUpCollectors"
         /\ Advice.collectors = scaling.analysis.collectorIdealCount
         /\ ~AdvisesProcessors
    ELSE IF Ge(Req.diskIO.utilization, Dec(7, 10))
    THEN /\ Advice.kind = "increaseProcessors"
         /\ Advice.processors = scaling.analysis.processorIdealCount
         /\ ~AdvisesCollectors
    ELSE /\ Advice.kind = "scaleUpBoth"
         /\ Advice.collectors = scaling.analysis.collectorIdealCount
         /\ Advice.processors = scaling.analysis.processorIdealCount

\* in the band, with the disk utilization above the network utilization, the
\* advice is to scale up the collectors alone
C16_CollectorsUnderDiskLoad ==
  /\ InScalingBand
  /\ Gt(Req.diskIO.utilization, Req.networkIO.utilization)
  /\ Advice.kind = "scaleUpCollectors"

(***************************************************************************)
(* C17                                                                     *)
(***************************************************************************)
\* the caller's capacities with s collectors and c processors
ConfigurationOf(s, c) ==
  Resources(RawField(userResources, "cpu"), RawField(userResources, "memory"),
            RawField(userResources, "diskIO"),
            RawField(userResources, "networkIO"),
            RawField(userResources, "storage"), Num(s), Num(c))

\* the estimate for the workload on s collectors and c processors
EstimateOn(s, c) == calculateResourceRequirements(workload, ConfigurationOf(s, c))

\* entry i of a sweep record, as the record of its columns
EntryOf(sweepRecord, i) == [f \in DOMAIN sweepRecord |-> sweepRecord[f][i]]

\* C17: validateInstanceScaling returns for every workload and resources;
\* each sweep has exactly 8 entries with instances 1, 2, .., 8 in that
\* order; entry i of the collector sweep is computed on i collectors and 1
\* processor and entry i of the processor sweep on 1 collector and i
\* processors, whatever the caller's counts; the two ideal counts lie in
\* 1..8 and the recommendation is not empty.
C17_SweepStructure ==
  Returned(scaling) =>
    /\ ~scaling.threw
    /\ \A f \in DOMAIN scaling.collectorScaling :
         Len(scaling.collectorScaling[f]) = SweepSize
    /\ \A f \in DOMAIN scaling.processorScaling :
         Len(scaling.processorScaling[f]) = SweepSize
    /\ \A i \in Sweep :
         /\ EntryOf(scaling.collectorScaling, i)
              = CollectorEntry(EstimateOn(i, 1), EstimateOn(1, 1), i)
         /\ EntryOf(scaling.processorScaling, i)
              = ProcessorEntry(EstimateOn(1, i), EstimateOn(1, 1), i)
         /\ NumEq(scaling.collectorScaling.instances[i], Num(i))
         /\ NumEq(scaling.processorScaling.instances[i], Num(i))
    /\ \E i \in Sweep : NumEq(scaling.analysis.collectorIdealCount, Num(i))
    /\ \E i \in Sweep : NumEq(scaling.analysis.processorIdealCount, Num(i))
    /\ Advice.kind \in
         {"sufficient", "considerCollectors", "considerProcessors", "optimal",
          "scaleUpCollectors", "increaseProcessors", "scaleUpBoth", "urgent"}

\* an analysis for a caller on several collectors and several processors:
\* the first entries of the sweeps carry the whole load, which the caller's
\* configuration divides
C17_SweepFromOneInstance ==
  /\ Validated
  /\ Calculated
  /\ Lt(Flow.metricsPerInstance, scaling.collectorScaling.metricsPerInstance[1])
  /\ Lt(Flow.writesPerInstance, scaling.processorScaling.writesPerInstance[1])

(***************************************************************************)
(* C18                                                                     *)
(***************************************************************************)
\* the call has returned
SweepDone == sweep.pc = "done"

\* C18 as stated: a call to validateInstanceScaling that has returned has
\* made exactly 16 invocations of calculateResourceRequirements, 8 for the
\* collector sweep and 8 for the processor sweep.
C18_SixteenCalls == SweepDone => sweep.calls = 2 * SweepSize

\* C18 as the code has it: every call to validateInstanceScaling terminates
\* after exactly 18 invocations of calculateResourceRequirements, whatever
\* the inputs: 1 for the single-instance baseline, 8 for the collector sweep,
\* 8 for the processor sweep and 1 for the caller's current configuration.
C18_EighteenCalls ==
  /\ <>SweepDone
  /\ [](sweep.calls <= 2 * SweepSize + 2)
  /\ [](SweepDone => /\ sweep.calls = 2 * SweepSize + 2
                     /\ Len(sweep.collector) = SweepSize
                     /\ Len(sweep.processor) = SweepSize)

\* a call that has returned after its eighteen estimates
C18_ReturnedAfterEighteen ==
  /\ SweepDone
  /\ Returned(scaling)
  /\ sweep.calls = 18
  /\ Len(sweep.collector) = 8
  /\ Len(sweep.processor) = 8

(***************************************************************************)
(* C19                                                                     *)
(***************************************************************************)
\* the step is a call of one of the two functions: a result is written
IsCall == result' # result \/ scaling' # scaling

RECURSIVE pointIndex(_, _)
pointIndex(s, i) ==
  IF i > Len(s) \/ s[i] = "." THEN i ELSE pointIndex(s, i + 1)

\* the sign and the digits before the decimal point
IntegerPortion(s) == SubSeq(s, 1, pointIndex(s, 1) - 1)

\* the decimal point and the digits after it
FractionPortion(s) == SubSeq(s, pointIndex(s, 1), Len(s))

\* s with a comma before every digit that has a digit before it and a
\* multiple of three characters from it to the end of s; from character i on
RECURSIVE groupedByThrees(_, _)
groupedByThrees(s, i) ==
  IF i > Len(s) THEN << >>
  ELSE (IF i > 1 /\ IsDigit(s[i - 1]) /\ (Len(s) - i + 1) % 3 = 0
          THEN <<",">> ELSE << >>)
       \o <<s[i]>> \o groupedByThrees(s, i + 1)

\* the call of formatNumber has returned
Formatted == formatted # << >>

\* C20: formatNumber returns the integer portion of the number with a comma
\* between every group of three digits, followed by the decimal point and
\* the digits after it unchanged and without separator, however many they
\* are; no digit is added, dropped or reordered.
C20_CommasInIntegerPortionOnly ==
  Formatted =>
    formatted = groupedByThrees(IntegerPortion(numberToString(num)), 1)
                  \o FractionPortion(numberToString(num))

(***************************************************************************)
(* C21                                                                     *)
(***************************************************************************)
\* one of cpu, memory, diskIO, networkIO has status critical
SomeCritical == \E key \in RealTimeKeys : Req[key].status = "critical"

\* C21: for the same workload and resources the combined recommendation of
\* validateInstanceScaling is the 'no scaling needed' one exactly when
\* getScalingRecommendation says 'room for growth', and it is the 'Urgent'
\* one exactly when getScalingRecommendation says 'immediate scaling', which
\* is exactly when one of cpu, memory, diskIO, networkIO is critical; this
\* at every utilization, the thresholds 0.5 and 0.9 included.
C21_AdviceTiersAgree ==
  (Calculated /\ Validated) =>
    /\ Advice.kind = "sufficient"
         <=> getScalingRecommendation(Req)
               = "Current resources are adequate with room for growth."
    /\ Advice.kind = "urgent"
         <=> getScalingRecommendation(Req)
               = "Immediate scaling recommended for highlighted resources."
    /\ SomeCritical
         <=> getScalingRecommendation(Req)
               = "Immediate scaling recommended for highlighted resources."

(***************************************************************************)
(* C22                                                                     *)
(***************************************************************************)
\* both advisors have returned
Advised == recommendation # "" /\ Returned(bottleneck)

\* the advisors say that scaling is due now and name a bottleneck
AdvisedCritical ==
  /\ recommendation = "Immediate scaling recommended for highlighted resources."
  /\ bottleneck.message = "Primary bottleneck: name (percent% utilized)"

\* C22 as stated: whenever any of the five resources, storage included, has
\* status critical, getScalingRecommendation returns the 'immediate scaling
\* recommended' advice and identifyBottleneck reports a primary bottleneck.
C22_AnyCriticalIsAdvised ==
  (Advised /\ \E key \in RealTimeKeys \cup {"storage"} :
                requirements[key].status = "critical")
    => AdvisedCritical

\* C22 as the code has it: whenever one of cpu, memory, diskIO and networkIO
\* has status critical, getScalingRecommendation returns the 'immediate
\* scaling recommended' advice and identifyBottleneck reports a primary
\* bottleneck, which is one of these four; a critical storage alone changes
\* neither answer (the advice is 'immediate' only if one of the four is
\* critical).
C22_RealTimeCriticalIsAdvised ==
  Advised =>
    /\ (\E key \in RealTimeKeys : requirements[key].status = "critical")
         <=> recommendation
               = "Immediate scaling recommended for highlighted resources."
    /\ (\E key \in RealTimeKeys : requirements[key].status = "critical")
         => /\ AdvisedCritical
            /\ \E key \in RealTimeKeys : bottleneck.name = NameOfKey[key]

\* the advisors have answered for requirements whose memory alone is
\* critical, the storage being healthy
C22_MemoryCriticalAdvised ==
  /\ Advised
  /\ AdvisedCritical
  /\ bottleneck.name = "Memory"
  /\ requirements.memory.status = "critical"
  /\ requirements.storage.status = "healthy"
  /\ \A key \in RealTimeKeys \ {"memory"} : requirements[key].status = "healthy"

(***************************************************************************)
(* C23                                                                     *)
(***************************************************************************)
\* the recommendation states a collector count, a processor count
StatesCollectors ==
  Advice.kind \in {"considerCollectors", "scaleUpCollectors", "scaleUpBoth", "urgent"}

StatesProcessors ==
  Advice.kind \in {"considerProcessors", "increaseProcessors", "scaleUpBoth", "urgent"}

\* C23: whenever the combined recommendation of validateInstanceScaling
\* tells the user to increase or scale up the collector or the processor
\* instances to a stated count, that count is strictly greater than the
\* current count of that tier in the resources passed in.
C23_StatedCountAboveCurrent ==
  Validated =>
    /\ StatesCollectors => Gt(Advice.collectors, NormResources.statsdInstances)
    /\ StatesProcessors => Gt(Advice.processors, NormResources.carbonInstances)

(***************************************************************************)
(* C24.  Normalising a normalised record.                                  *)
(***************************************************************************)
\* a normalised record handed back as an argument object
AsObject(rec) ==
  [f \in DOMAIN rec \cup {"k"} |-> IF f = "k" THEN "object" ELSE rec[f]]

NegativeRatio == Lt(OptionalChain(workload, "uniqueMetricsRatio"), Num(0))

Renormalized ==
  calculateResourceRequirements(AsObject(NormWorkload), AsObject(NormResources))

\* C24 as stated: safeWorkload and safeResources are idempotent, and
\* calculateResourceRequirements on the normalised records returns what it
\* returns on the raw records.
C24_NormalizationIdempotent ==
  Calculated =>
    /\ safeWorkload(AsObject(NormWorkload)) = NormWorkload
    /\ safeResources(AsObject(NormResources)) = NormResources
    /\ Renormalized = result

\* C24 amended: safeResources is idempotent; safeWorkload is idempotent and
\* the estimate is the same on the normalised records unless the raw
\* uniqueMetricsRatio is negative: a negative ratio is normalised to 0, and
\* 0 is normalised to 0.2.
C24_IdempotentUnlessNegativeRatio ==
  Calculated =>
    /\ safeResources(AsObject(NormResources)) = NormResources
    /\ ~NegativeRatio =>
         /\ safeWorkload(AsObject(NormWorkload)) = NormWorkload
         /\ Renormalized = result
    /\ NegativeRatio =>
         /\ NormWorkload.uniqueMetricsRatio = Num(0)
         /\ safeWorkload(AsObject(NormWorkload)).uniqueMetricsRatio = Dec(2, 10)

\* an estimate on out-of-range arguments whose ratio is not negative
C24_OutOfRangeNormalized ==
  /\ Calculated
  /\ ~NegativeRatio
  /\ NormWorkload.uniqueMetricsRatio = Num(1)
  /\ userResources = NegativeResources

(***************************************************************************)
(* C25.  The network estimate and the instance counts.                     *)
(***************************************************************************)
InstanceCounts == 1..MaxInstances

\* the same number, or NaN twice
SameValue(a, b) == NumEq(a, b) \/ (a.k = "nan" /\ b.k = "nan")

C26_MemoryAtMostSingleInstance ==
  Calculated =>
    Le(result.requirements.memory.value,
       EstimateOn(1, 1).requirements.memory.value)

\* the tiers' memory before the rounding of the report, on the resources sr
MemoryBeforeRounding(sr) ==
  totalMemoryRequired(result.flowMetrics.uniqueMetricsPerSecond,
                      writesPerInstance(result.flowMetrics.writesPerSecond, sr),
                      NormWorkload, sr)

OneOfEach ==
  [NormResources EXCEPT !.statsdInstances = Num(1), !.carbonInstances = Num(1)]

\* an estimate on several collectors and several processors that needs less
\* memory than the estimate on one of each
C26_LessMemoryOnSeveralInstances ==
  /\ Calculated
  /\ Gt(NormResources.statsdInstances, Num(1))
  /\ Gt(NormResources.carbonInstances, Num(1))
  /\ Lt(MemoryBeforeRounding(NormResources), MemoryBeforeRounding(OneOfEach))
  /\ Lt(result.requirements.memory.value,
        EstimateOn(1, 1).requirements.memory.value)

(***************************************************************************)
(* C27.  The stored requirements and flowMetrics follow the inputs.        *)
(***************************************************************************)
\* no update is queued and no effect is scheduled
Quiet == hook.component # "none" /\ ~HookStepEnabled

StoredFor(calculated) ==
  /\ hook.requirements = calculated.requirements
  /\ hook.flowMetrics = calculated.flowMetrics

\* the stored requirements and flowMetrics are those of the stored inputs
StoredIsCurrent ==
  StoredFor(calculateResourceRequirements(hook.workload, hook.userResources))

InputChangeQueued ==
  /\ hook.component # "none"
  /\ hook.updates.workload # << >> \/ hook.updates.userResources # << >>

NeitherNull == hook.requirements # Null /\ hook.flowMetrics # Null

\* C27: in the hook and in the Simulator, whenever every queued update is
\* rendered and every scheduled effect has run, requirements and flowMetrics
\* are calculateResourceRequirements(workload, userResources) of the stored
\* workload and userResources; every queued change of workload or
\* userResources leads to such a state; and once the effects of the mount
\* are rendered, requirements and flowMetrics are never null again.
C27_StoredFollowsInputs ==
  /\ [](Quiet => StoredIsCurrent)
  /\ InputChangeQueued ~> (Quiet /\ StoredIsCurrent)
  /\ <>Quiet
  /\ [](Quiet => []NeitherNull)

\* two changes, one of the workload and one of the resources, rendered and
\* recalculated
C27_RecalculatedAfterChanges ==
  /\ Quiet
  /\ hook.events = MaxEvents
  /\ hook.workload # DEFAULT_WORKLOAD
  /\ hook.userResources # DEFAULT_USER_RESOURCES
  /\ StoredIsCurrent

(***************************************************************************)
(* C28.  What a preset writes.                                             *)
(***************************************************************************)
\* the state the next render will show: the queued updates applied
PendingWorkload == ApplyUpdates(hook.workload, hook.updates.workload)

PendingResources == ApplyUpdates(hook.userResources, hook.updates.userResources)

HandlerRan(name) ==
  /\ hook.component # "none"
  /\ hook'.events = hook.events + 1
  /\ hook'.handler.name = name

WorkloadPresetFrame ==
  HandlerRan("applyWorkloadPreset") =>
    /\ PendingWorkload'
         = SpreadWith(PendingWorkload, workloadPresetFields(hook'.handler.preset))
    /\ PendingResources' = PendingResources

ResourcePresetFrame ==
  HandlerRan("applyResourcePreset") =>
    /\ PendingResources'
         = SpreadWith(PendingResources,
                      resourcePresetFields(hook'.handler.preset))
    /\ PendingWorkload' = PendingWorkload

\* C28: in the hook and in the Simulator, applying a workload preset changes
\* requestsPerSecond, metricsPerRequest, uniqueMetricsRatio and
\* calculationComplexity to the preset's values and nothing else, and
\* applying a resource preset changes cpu, memory, diskIO and networkIO to
\* the preset's values and nothing else, updates queued before it in the
\* same batch included.
C28_PresetWritesItsFieldsOnly ==
  [][WorkloadPresetFrame /\ ResourcePresetFrame]_vars

(***************************************************************************)
(* C29.  Show All Details toggled on and off.                              *)
(***************************************************************************)
AllClicks == {i \in DOMAIN details.log : details.log[i] = "all"}

\* the last click was on Show All Details and turned it off, and a click
\* before it had turned it on
AllToggledOnThenOff ==
  /\ details.component # "none"
  /\ Cardinality(AllClicks) >= 2
  /\ Len(details.log) \in AllClicks
  /\ ~details.showAllDetails

\* C29: in ResourceDisplay and in ResourceMetrics, once Show All Details has
\* been toggled on and then off again, no gauge shows its details, whichever
\* gauges were toggled before or in between.
C29_NoDetailsAfterOnAndOff ==
  AllToggledOnThenOff => \A resourceKey \in GaugeKeys : ~showDetails(resourceKey)

(***************************************************************************)
(* C30.  The two states of the ErrorBoundary.                              *)
(***************************************************************************)
BoundarySettled == boundary.component # "none" /\ ~boundary.renderPending

\* what a finished render shows in each state, and that a throwing child
\* never stays rendered
BoundaryShows ==
  BoundarySettled =>
    /\ ~boundary.hasError =>
         /\ boundary.shown = "children"
         /\ boundary.error = "null"
         /\ ~boundary.shouldThrow
    /\ boundary.hasError =>
         /\ boundary.error = "Error"
         /\ boundary.shown =
              (IF boundary.fallback = "element" THEN "fallback" ELSE "panel")

\* the error state is left by a reset alone, which clears the state and
\* invokes a supplied onReset once
LeftByResetAlone ==
  (boundary.component # "none" /\ boundary.hasError /\ ~boundary'.hasError) =>
    /\ boundary.shown = "panel"
    /\ boundary'.resets = boundary.resets + 1
    /\ boundary'.error = "null"
    /\ boundary'.renderPending
    /\ boundary'.onResetCalls =
         boundary.onResetCalls + (IF boundary.onReset = "undefined" THEN 0 ELSE 1)

\* a reset happens in the error state alone
ResetInErrorState ==
  (boundary.component # "none" /\ boundary'.resets # boundary.resets) =>
    boundary.hasError /\ ~boundary'.hasError

OnResetOncePerReset ==
  boundary.component # "none" =>
    boundary.onResetCalls =
      (IF boundary.onReset = "undefined" THEN 0 ELSE boundary.resets)

\* C30: the ErrorBoundary starts with hasError = false; a finished render
\* shows the children when hasError is false and, when a child has thrown,
\* hasError is true, the error is recorded and the custom fallback is shown
\* if one is supplied, the default panel otherwise; the error state is left
\* through handleReset alone, which sets hasError = false and error = null
\* and invokes the supplied onReset exactly once per reset; after a reset
\* the children are rendered again, and a child that throws again puts the
\* boundary back in the error state.
C30_TwoStateMachine ==
  /\ (boundary.component # "none" => ~boundary.hasError)
  /\ []BoundaryShows
  /\ [][LeftByResetAlone /\ ResetInErrorState]_vars
  /\ []OnResetOncePerReset
  /\ [](RenderPending ~> BoundarySettled)

\* after a reset, a child that throws again and a second reset, the
\* children are shown again
C30_RecoveredAfterSecondReset ==
  /\ BoundarySettled
  /\ boundary.resets = 2
  /\ boundary.onResetCalls = 2
  /\ boundary.shown = "children"

=============================================================================
